---- MODULE Spec2Model ----
(***************************************************************************)
(* The driver service and the gateway in front of it.                      *)
(*                                                                         *)
(* Spec        nearby-driver search: the MongoDB repository's FindNearby   *)
(*             (driver_repository.go), the use case FindNearbyDrivers on   *)
(*             top of it, and the drivers collection they read             *)
(*             (variables collection, resp).                               *)
(* SpecDrivers the driver records: the use case's create, update, get and  *)
(*             list over the stored documents (variables store, clock,     *)
(*             out).                                                       *)
(* SpecHandler the driver service's HTTP handlers on top of the use case   *)
(*             (same variables).                                           *)
(* SpecRateLimit the gateway's per-client rate limiter and its cleanup     *)
(*             (variables config, clients, clock, hist).                   *)
(* SpecGateway the gateway's router: rate limiter, JWT and API key checks  *)
(*             in front of the proxied driver routes (variables config,    *)
(*             clients, clock, out).                                       *)
(* SpecDistance the distance between two points (variable out).            *)
(* SpecSearches concurrent nearby-driver searches beside inserts           *)
(*             (variables collection, procs).                              *)
(* SpecNearbyHandler the driver service's handler of GET /drivers/nearby   *)
(*             (variables collection, out).                                *)
(* SpecForward the gateway's driver handlers and what they hand on of the  *)
(*             driver service's response (variable out).                   *)
(* SpecUpdates concurrent UpdateDriver calls (variables store, clock,      *)
(*             procs).                                                     *)
(* SpecListing ListDrivers beside CreateDriver (variables store, clock,    *)
(*             procs).                                                     *)
(* SpecLimiters the rate limiter under concurrent requests and the cleanup *)
(*             (variables config, clients, clock, hist, procs).            *)
(*                                                                         *)
(* Coordinates are integers in units of 1/10000 degree (41.0082 degrees is *)
(* 410082); distances and radii are integers in metres.                    *)
(***************************************************************************)
EXTENDS Integers, Sequences, FiniteSets, TLC

VARIABLES collection, resp, store, clock, out, config, clients, hist, procs

vars == <<collection, resp, store, clock, out, config, clients, hist, procs>>

\* The variables of the nearby-driver search, of the driver records and of
\* the gateway; procs holds the local state of the calls in progress where
\* calls run concurrently.
searchVars == <<collection, resp>>
driverVars == <<store, clock, out>>
gatewayVars == <<config, clients, hist>>

(***************************************************************************)
(* Bounds of the model.                                                    *)
(***************************************************************************)
MaxDrivers == 3

(***************************************************************************)
(* domain.TaxiType and domain.Location.                                    *)
(***************************************************************************)
TaxiTypeSari == "sari"
TaxiTypeTurkuaz == "turkuaz"
TaxiTypeSiyah == "siyah"

\* A nil *domain.TaxiType (no filter requested).
NilTaxiType == "<nil>"

IsValid(t) == t = TaxiTypeSari \/ t = TaxiTypeTurkuaz \/ t = TaxiTypeSiyah

Location(lat, lon) == [lat |-> lat, lon |-> lon]

(***************************************************************************)
(* The points of the model: the coordinates used by the repository's and   *)
(* the use case's tests, the origin, the north pole under two longitudes,  *)
(* a point 0.01 degree of latitude beyond it, and one place on the date    *)
(* line under the longitudes 180 and -180.                                 *)
(***************************************************************************)
Besiktas == Location(410431, 290099)
Istanbul == Location(410082, 289784)
Sirkeci == Location(410182, 289884)
Ankara == Location(399334, 328597)
Origin == Location(0, 0)
NorthPole == Location(900000, 0)
PoleTwin == Location(900000, 290099)
BeyondPole == Location(900100, 0)
Lat100 == Location(1000000, 290099)
Lon200 == Location(410431, 2000000)
DateLineEast == Location(410431, 1800000)
DateLineWest == Location(410431, -1800000)

PointList ==
  <<Besiktas, Istanbul, Sirkeci, Ankara, Origin, NorthPole, PoleTwin,
    BeyondPole, Lat100, Lon200, DateLineEast, DateLineWest>>

(***************************************************************************)
(* haversine.Distance: the great-circle distance                           *)
(*   2 * R * asin(sqrt(clamp(h, 0, 1))),                                   *)
(*   h = sin^2(dlat/2) + cos(lat1) * cos(lat2) * sin^2(dlon/2),            *)
(* with R = 6371 km, evaluated in float64 for every pair of points of      *)
(* PointList and rounded UP to whole metres.  Rounding up keeps every      *)
(* comparison with a whole-metre radius exact (ceil(d) <= r iff d <= r),   *)
(* keeps the order of distances (never inverts it), and yields 0 only for  *)
(* a distance that is exactly 0.                                           *)
(***************************************************************************)
DistanceTable ==
  << <<0, 4695, 3305, 348130, 5418693, 5443759, 5443759, 5444732, 6555709, 10842394, 10430340, 10430340>>,
     <<4695, 0, 1393, 349356, 5414023, 5447640, 5447640, 5448613, 6559589, 10846561, 10434919, 10434919>>,
     <<3305, 1393, 0, 348921, 5415414, 5446528, 5446528, 5447501, 6558477, 10845357, 10433577, 10433577>>,
     <<348130, 349356, 348921, 0, 5548776, 5567152, 5567152, 5568086, 6676893, 10917444, 10417536, 10417536>>,
     <<5418693, 5414023, 5415414, 5548776, 0, 10007544, 10007544, 10008656, 10978812, 15025967, 15451303, 15451303>>,
     <<5443759, 5447640, 5446528, 5567152, 10007544, 0, 1, 1112, 1111950, 5443759, 5443759, 5443759>>,
     <<5443759, 5447640, 5446528, 5567152, 10007544, 1, 0, 1112, 1111950, 5443759, 5443759, 5443759>>,
     <<5444732, 5448613, 5447501, 5568086, 10008656, 1112, 1112, 0, 1110977, 5442715, 5442647, 5442647>>,
     <<6555709, 6559589, 6558477, 6676893, 10978812, 1111950, 1111950, 1110977, 0, 4348159, 4495724, 4495724>>,
     <<10842394, 10846561, 10845357, 10917444, 15025967, 5443759, 5443759, 5442715, 4348159, 0, 1673605, 1673605>>,
     <<10430340, 10434919, 10433577, 10417536, 15451303, 5443759, 5443759, 5442647, 4495724, 1673605, 0, 1>>,
     <<10430340, 10434919, 10433577, 10417536, 15451303, 5443759, 5443759, 5442647, 4495724, 1673605, 1, 0>> >>

PointIndex(lat, lon) ==
  CHOOSE i \in 1..Len(PointList) : PointList[i] = Location(lat, lon)

\* A distance in whole kilometres, the fraction cut off.
DistanceWholeKm(lat1, lon1, lat2, lon2) ==
  (DistanceTable[PointIndex(lat1, lon1)][PointIndex(lat2, lon2)] \div 1000) * 1000

Distance(lat1, lon1, lat2, lon2) ==
  DistanceTable[PointIndex(lat1, lon1)][PointIndex(lat2, lon2)]

(***************************************************************************)
(* The drivers collection.  A document carries the fields the search       *)
(* reads; wellFormed = FALSE stands for a document one of whose other      *)
(* fields has a BSON type that does not decode into the Go struct.         *)
(***************************************************************************)
Document(id, taxiType, location, wellFormed) ==
  [id |-> id, taxiType |-> taxiType, location |-> location,
   wellFormed |-> wellFormed]

\* A nil error.
NoError == "<nil>"

\* How the store answers one read: it narrows the candidates by the filter
\* (MongoDB), returns every candidate, fails the query, or fails the cursor.
Narrowing == "narrowing"
NotNarrowing == "notNarrowing"
FindFails == "findFails"
CursorFails == "cursorFails"

\* Mutant: the taxi type is never put into the filter.
BuildFilterEmpty(taxiType) == {}

\* filter := bson.M{}; if taxiType != nil { filter["taxiType"] = *taxiType }
BuildFilter(taxiType) ==
  IF taxiType # NilTaxiType THEN {<<"taxiType", taxiType>>} ELSE {}

Matches(doc, filter) == \A kv \in filter : doc[kv[1]] = kv[2]

\* r.collection.Find(c, filter): the documents of the collection, in its
\* natural order, that the store hands to the cursor.
CollectionFind(coll, filter, behaviour) ==
  IF behaviour = NotNarrowing THEN coll
  ELSE SelectSeq(coll, LAMBDA doc : Matches(doc, filter))

\* Mutant: a document that does not decode is passed over.
CursorAllOkLenient(candidates, behaviour) == behaviour # CursorFails

\* cursor.All(c, &allDrivers) succeeds iff the cursor does not fail and
\* every document decodes.
CursorAllOk(candidates, behaviour) ==
  /\ behaviour # CursorFails
  /\ \A i \in 1..Len(candidates) : candidates[i].wellFormed

\* The domain.Driver built from a decoded document.
ToDriver(doc) ==
  [id |-> doc.id, taxiType |-> doc.taxiType, location |-> doc.location]

\* Mutant: the radius itself is excluded.
WithinRadiusStrict(distance, radiusKm) == distance < radiusKm

\* distance <= radiusKm
WithinRadius(distance, radiusKm) == distance <= radiusKm

\* The loop over allDrivers: every candidate with its distance, those
\* within the radius kept in the order of the cursor.
NearbyDrivers(candidates, lat, lon, radiusKm) ==
  LET all == [i \in 1..Len(candidates) |->
               [driver |-> ToDriver(candidates[i]),
                distance |-> Distance(lat, lon, candidates[i].location.lat,
                                      candidates[i].location.lon)]]
  IN SelectSeq(all, LAMBDA nd : WithinRadius(nd.distance, radiusKm))

\* Mutant: the comparison is the wrong way round.
OutOfOrderReversed(a, i, j) == a[i].distance < a[j].distance

\* Mutant: equal distances are swapped too.
OutOfOrderOrEqual(a, i, j) == a[i].distance >= a[j].distance

\* nearbyDrivers[i].distance > nearbyDrivers[j].distance
OutOfOrder(a, i, j) == a[i].distance > a[j].distance

\* Mutant: the swap overwrites position i and leaves position j.
SwapOverwrite(a, i, j) ==
  [k \in 1..Len(a) |-> IF k = i THEN a[j] ELSE a[k]]

\* nearbyDrivers[i], nearbyDrivers[j] = nearbyDrivers[j], nearbyDrivers[i]
Swap(a, i, j) ==
  [k \in 1..Len(a) |-> IF k = i THEN a[j] ELSE IF k = j THEN a[i] ELSE a[k]]

\* for j := i + 1; j < len; j++ { if a[i] > a[j] { swap } }
RECURSIVE SortInner(_, _, _)
SortInner(a, i, j) ==
  IF j > Len(a) THEN a
  ELSE SortInner(IF OutOfOrder(a, i, j) THEN Swap(a, i, j) ELSE a, i, j + 1)

\* for i := 0; i < len - 1; i++ { inner loop }
RECURSIVE SortOuter(_, _)
SortOuter(a, i) ==
  IF i > Len(a) - 1 THEN a
  ELSE SortOuter(SortInner(a, i, i + 1), i + 1)

SortByDistance(a) == SortOuter(a, 1)

\* DriverRepository.FindNearby: (drivers, err) and the number of reads of
\* the collection it issued.
FindNearby(coll, lat, lon, radiusKm, taxiType, behaviour) ==
  LET filter == BuildFilter(taxiType)
      candidates == CollectionFind(coll, filter, behaviour)
      sorted == SortByDistance(NearbyDrivers(candidates, lat, lon, radiusKm))
  IN IF behaviour = FindFails
       THEN [err |-> "find failed", isNil |-> TRUE, drivers |-> <<>>,
             reads |-> 1]
     ELSE IF ~CursorAllOk(candidates, behaviour)
       THEN [err |-> "decode failed", isNil |-> TRUE, drivers |-> <<>>,
             reads |-> 1]
     ELSE [err |-> NoError, isNil |-> FALSE,
           drivers |-> [i \in 1..Len(sorted) |-> sorted[i].driver],
           reads |-> 1]

(***************************************************************************)
(* The use case.                                                           *)
(***************************************************************************)
RadiusKm == 6000

\* Mutant: only the latitude is checked.
ValidateLocationLatitudeOnly(lat, lon) ==
  IF lat < -900000 \/ lat > 900000
    THEN "latitude must be between -90 and 90"
  ELSE NoError

\* driverUseCase.validateLocation
ValidateLocation(lat, lon) ==
  IF lat < -900000 \/ lat > 900000
    THEN "latitude must be between -90 and 90"
  ELSE IF lon < -1800000 \/ lon > 1800000
    THEN "longitude must be between -180 and 180"
  ELSE NoError

\* The NearbyDriverResponse of a driver, its distance recomputed.
ToResponse(driver, lat, lon) ==
  [id |-> driver.id, taxiType |-> driver.taxiType,
   distanceKm |-> Distance(lat, lon, driver.location.lat, driver.location.lon)]

\* Mutant: the failure is logged and an empty list returned.
RepositoryFailureSwallowed(repo) ==
  [err |-> NoError, isNil |-> FALSE, responses |-> <<>>, drivers |-> <<>>,
   reads |-> repo.reads]

\* What the use case returns when the repository has failed.
RepositoryFailure(repo) ==
  [err |-> "failed to find nearby drivers", isNil |-> TRUE,
   responses |-> <<>>, drivers |-> <<>>, reads |-> repo.reads]

\* A use case that asks the repository a second time when the first read
\* failed.
FindNearbyDriversRetrying(coll, lat, lon, taxiType, behaviour) ==
  LET verr == ValidateLocation(lat, lon)
      repo == FindNearby(coll, lat, lon, RadiusKm, taxiType, behaviour)
  IN IF verr # NoError
       THEN [err |-> verr, isNil |-> TRUE, responses |-> <<>>,
             drivers |-> <<>>, reads |-> 0]
     ELSE IF taxiType # NilTaxiType /\ ~IsValid(taxiType)
       THEN [err |-> "invalid taxiType", isNil |-> TRUE, responses |-> <<>>,
             drivers |-> <<>>, reads |-> 0]
     ELSE IF repo.err # NoError
       THEN [RepositoryFailure(repo) EXCEPT !.reads = repo.reads + 1]
     ELSE [err |-> NoError, isNil |-> FALSE,
           responses |-> [i \in 1..Len(repo.drivers) |->
                           ToResponse(repo.drivers[i], lat, lon)],
           drivers |-> repo.drivers, reads |-> repo.reads]

\* driverUseCase.FindNearbyDrivers: (responses, err), the drivers the
\* repository returned and the number of reads of the collection.
FindNearbyDrivers(coll, lat, lon, taxiType, behaviour) ==
  LET verr == ValidateLocation(lat, lon)
      repo == FindNearby(coll, lat, lon, RadiusKm, taxiType, behaviour)
  IN IF verr # NoError
       THEN [err |-> verr, isNil |-> TRUE, responses |-> <<>>,
             drivers |-> <<>>, reads |-> 0]
     ELSE IF taxiType # NilTaxiType /\ ~IsValid(taxiType)
       THEN [err |-> "invalid taxiType", isNil |-> TRUE, responses |-> <<>>,
             drivers |-> <<>>, reads |-> 0]
     ELSE IF repo.err # NoError
       THEN RepositoryFailure(repo)
     ELSE [err |-> NoError, isNil |-> FALSE,
           responses |-> [i \in 1..Len(repo.drivers) |->
                           ToResponse(repo.drivers[i], lat, lon)],
           drivers |-> repo.drivers, reads |-> repo.reads]

(***************************************************************************)
(* Inputs of the model.                                                    *)
(***************************************************************************)
\* Drivers the repository's Create is called with (it validates nothing).
CreateInputs ==
  { [taxiType |-> TaxiTypeSari, location |-> Besiktas],
    [taxiType |-> TaxiTypeSari, location |-> Istanbul],
    [taxiType |-> TaxiTypeTurkuaz, location |-> Sirkeci],
    [taxiType |-> TaxiTypeTurkuaz, location |-> Ankara],
    [taxiType |-> TaxiTypeSari, location |-> Origin],
    [taxiType |-> TaxiTypeSari, location |-> PoleTwin],
    [taxiType |-> TaxiTypeSari, location |-> BeyondPole] }

\* Documents another writer of the collection leaves undecodable.
ForeignInputs == { [taxiType |-> TaxiTypeSari, location |-> Istanbul] }

\* Centers of a search: four legal ones and two out of range.
Centers == {Besiktas, Istanbul, Origin, NorthPole, Lat100, Lon200}
RepositoryCenters == {Besiktas, Istanbul, Origin, NorthPole}

\* Taxi type arguments: none, two valid ones and an invalid one.
TaxiTypeArgs == {NilTaxiType, TaxiTypeSari, TaxiTypeTurkuaz, "invalid"}
RepositoryTaxiTypeArgs == {NilTaxiType, TaxiTypeSari, TaxiTypeTurkuaz}

\* Radii of a direct call of the repository: 0, the distance from Istanbul
\* to Sirkeci, the use case's radius and the test's 1000 km.
Radii == {0, Distance(410082, 289784, 410182, 289884), RadiusKm, 1000000}

Behaviours == {Narrowing, NotNarrowing, FindFails, CursorFails}
RepositoryBehaviours == {Narrowing, FindFails, CursorFails}

(***************************************************************************)
(* State: the collection, and the operation whose response the caller is   *)
(* holding (op = "idle" between operations).                               *)
(***************************************************************************)
Idle ==
  [op |-> "idle", lat |-> 0, lon |-> 0, radiusKm |-> 0,
   taxiType |-> NilTaxiType, behaviour |-> Narrowing, err |-> NoError,
   isNil |-> TRUE, drivers |-> <<>>, responses |-> <<>>, reads |-> 0]

\* No stored driver record, the clock at its first instant, no exchange with
\* the driver service under way.
NoExchange == [op |-> "idle"]

\* The gateway process before config.Load has run: no configuration, no
\* client limiter, no request seen.
NotLoaded == [loaded |-> FALSE]
NoClients == {}

Init ==
  /\ collection = <<>>
  /\ resp = Idle
  /\ store = <<>>
  /\ clock = 1
  /\ out = NoExchange
  /\ config = NotLoaded
  /\ clients = NoClients
  /\ hist = <<>>
  /\ procs = <<>>

\* DriverRepository.Create: InsertOne appends the document under a fresh id.
Create(driver) ==
  /\ resp.op = "idle"
  /\ Len(collection) < MaxDrivers
  /\ collection' = Append(collection,
       Document(Len(collection) + 1, driver.taxiType, driver.location, TRUE))
  /\ UNCHANGED resp

\* Another writer inserts a document that does not decode.
ForeignWrite(driver) ==
  /\ resp.op = "idle"
  /\ Len(collection) < MaxDrivers
  /\ collection' = Append(collection,
       Document(Len(collection) + 1, driver.taxiType, driver.location, FALSE))
  /\ UNCHANGED resp

\* A call of the use case's FindNearbyDrivers.
UseCaseFindNearbyDrivers(lat, lon, taxiType, behaviour) ==
  /\ resp.op = "idle"
  /\ LET r == FindNearbyDrivers(collection, lat, lon, taxiType, behaviour)
     IN resp' = [op |-> "FindNearbyDrivers", lat |-> lat, lon |-> lon,
                 radiusKm |-> RadiusKm, taxiType |-> taxiType,
                 behaviour |-> behaviour, err |-> r.err, isNil |-> r.isNil,
                 drivers |-> r.drivers, responses |-> r.responses,
                 reads |-> r.reads]
  /\ UNCHANGED collection

\* A direct call of the repository's FindNearby.
RepositoryFindNearby(lat, lon, radiusKm, taxiType, behaviour) ==
  /\ resp.op = "idle"
  /\ LET r == FindNearby(collection, lat, lon, radiusKm, taxiType, behaviour)
     IN resp' = [op |-> "FindNearby", lat |-> lat, lon |-> lon,
                 radiusKm |-> radiusKm, taxiType |-> taxiType,
                 behaviour |-> behaviour, err |-> r.err, isNil |-> r.isNil,
                 drivers |-> r.drivers, responses |-> <<>>,
                 reads |-> r.reads]
  /\ UNCHANGED collection

\* The caller has consumed the response.
Return ==
  /\ resp.op # "idle"
  /\ resp' = Idle
  /\ UNCHANGED collection

Next ==
  \/ \E driver \in CreateInputs : Create(driver) /\ UNCHANGED <<driverVars, gatewayVars, procs>>
  \/ \E driver \in ForeignInputs : ForeignWrite(driver) /\ UNCHANGED <<driverVars, gatewayVars, procs>>
  \/ \E c \in Centers, t \in TaxiTypeArgs, b \in Behaviours :
       UseCaseFindNearbyDrivers(c.lat, c.lon, t, b) /\ UNCHANGED <<driverVars, gatewayVars, procs>>
  \/ \E c \in RepositoryCenters, r \in Radii, t \in RepositoryTaxiTypeArgs,
        b \in RepositoryBehaviours :
       RepositoryFindNearby(c.lat, c.lon, r, t, b) /\ UNCHANGED <<driverVars, gatewayVars, procs>>
  \/ Return /\ UNCHANGED <<driverVars, gatewayVars, procs>>

Spec == Init /\ [][Next]_vars

(***************************************************************************)
(* Vocabulary of the properties.                                           *)
(***************************************************************************)
UseCaseDone == resp.op = "FindNearbyDrivers"
RepositoryDone == resp.op = "FindNearby"
Succeeded == resp.err = NoError

Indices(seq) == 1..Len(seq)

\* Distance of a location from the center of the call in resp.
FromCenter(location) ==
  Distance(resp.lat, resp.lon, location.lat, location.lon)

InRange(location) ==
  /\ location.lat >= -900000 /\ location.lat <= 900000
  /\ location.lon >= -1800000 /\ location.lon <= 1800000

\* The valid locations of the documentation: in range and not (0, 0).
IsValidLocation(location) == InRange(location) /\ location # Origin

\* The document passes the category filter of the call in resp.
PassesFilter(doc) ==
  resp.taxiType = NilTaxiType \/ doc.taxiType = resp.taxiType

\* Positions of resp.drivers holding the document.
Occurrences(doc) == {i \in Indices(resp.drivers) : resp.drivers[i].id = doc.id}

\* The read of the call in resp failed: the query or the cursor failed, or
\* a document handed to the cursor does not decode.
StoreReadFailed ==
  \/ resp.behaviour \in {FindFails, CursorFails}
  \/ \E k \in Indices(collection) :
       /\ ~collection[k].wellFormed
       /\ resp.behaviour = NotNarrowing \/ PassesFilter(collection[k])

(***************************************************************************)
(* C1: the responses of FindNearbyDrivers are in non-decreasing order of   *)
(* distanceKm: for all positions i < j, distanceKm[i] <= distanceKm[j].    *)
(***************************************************************************)
C1_SortedByDistance ==
  (UseCaseDone /\ Succeeded) =>
    \A i, j \in Indices(resp.responses) :
      i < j => resp.responses[i].distanceKm <= resp.responses[j].distanceKm

\* Three responses at three distances, the nearest stored last.
C1_Witness ==
  /\ UseCaseDone /\ Succeeded
  /\ Len(resp.responses) >= 3
  /\ resp.responses[1].distanceKm < resp.responses[2].distanceKm
  /\ resp.responses[2].distanceKm < resp.responses[3].distanceKm
  /\ resp.responses[1].id > resp.responses[2].id
  /\ resp.responses[1].id > resp.responses[3].id

(***************************************************************************)
(* C2: a stored driver whose location is exactly (0, 0) never appears in a *)
(* FindNearbyDrivers result, whatever the center.                          *)
(***************************************************************************)
C2_OriginNeverReturned ==
  (UseCaseDone /\ Succeeded) =>
    \A i \in Indices(resp.drivers) : resp.drivers[i].location # Origin

C5_OutOfRangeNeverReturned ==
  (RepositoryDone /\ Succeeded) =>
    \A i \in Indices(resp.drivers) : InRange(resp.drivers[i].location)

(***************************************************************************)
(* C6: every stored candidate that passes the category filter, has a valid *)
(* location and lies within the radius appears exactly once in the         *)
(* FindNearby result, and no driver appears twice.                         *)
(***************************************************************************)
C6_EveryQualifyingOnce ==
  (RepositoryDone /\ Succeeded) =>
    /\ \A k \in Indices(collection) :
         (PassesFilter(collection[k])
            /\ IsValidLocation(collection[k].location)
            /\ FromCenter(collection[k].location) <= resp.radiusKm)
           => Cardinality(Occurrences(collection[k])) = 1
    /\ \A i, j \in Indices(resp.drivers) :
         i # j => resp.drivers[i].id # resp.drivers[j].id

\* Three stored candidates qualify, the sort has to move them, and all
\* three are returned.
C6_Witness ==
  /\ RepositoryDone /\ Succeeded
  /\ Len(resp.drivers) >= 3
  /\ \A i \in Indices(resp.drivers) :
       IsValidLocation(resp.drivers[i].location)
  /\ resp.drivers[1].id > resp.drivers[2].id

C8_InvalidCenterRejected ==
  (UseCaseDone /\ ~InRange(Location(resp.lat, resp.lon))) =>
    /\ resp.err \in {"latitude must be between -90 and 90",
                     "longitude must be between -180 and 180"}
    /\ resp.isNil /\ resp.responses = <<>>
    /\ resp.reads = 0

\* A search from longitude 200 over a collection holding drivers.
C8_Witness ==
  /\ UseCaseDone
  /\ resp.lon > 1800000
  /\ Len(collection) >= 1
  /\ resp.err # NoError /\ resp.reads = 0

(***************************************************************************)
(* C9: when the store read fails during FindNearbyDrivers, the call        *)
(* returns an error and no result list at all.                             *)
(***************************************************************************)
C9_StoreFailureNoResults ==
  (UseCaseDone /\ resp.reads >= 1 /\ StoreReadFailed) =>
    /\ resp.err = "failed to find nearby drivers"
    /\ resp.isNil /\ resp.responses = <<>>

\* The cursor fails over a collection holding a driver at the center.
C9_Witness ==
  /\ UseCaseDone /\ resp.behaviour = CursorFails /\ resp.reads = 1
  /\ resp.err # NoError
  /\ \E k \in Indices(collection) :
       /\ collection[k].wellFormed
       /\ collection[k].location = Location(resp.lat, resp.lon)

MaxStored == 2
MaxClock == 2

DigitChars == {"0", "1", "2", "3", "4", "5", "6", "7", "8", "9"}
LowerChars ==
  <<"a", "b", "c", "d", "e", "f", "g", "h", "i", "j", "k", "l", "m",
    "n", "o", "p", "q", "r", "s", "t", "u", "v", "w", "x", "y", "z">>
UpperChars ==
  <<"A", "B", "C", "D", "E", "F", "G", "H", "I", "J", "K", "L", "M",
    "N", "O", "P", "Q", "R", "S", "T", "U", "V", "W", "X", "Y", "Z">>

\* The elements of a sequence.
Range(seq) == {seq[i] : i \in 1..Len(seq)}

\* strings.ToUpper, one character and a whole string.
ToUpperChar(c) ==
  IF \E i \in 1..Len(LowerChars) : LowerChars[i] = c
  THEN UpperChars[CHOOSE i \in 1..Len(LowerChars) : LowerChars[i] = c]
  ELSE c
ToUpper(s) == [i \in 1..Len(s) |-> ToUpperChar(s[i])]

\* The plate pattern ^[0-9]{2,3}[A-Z]{1,3}[0-9]{1,4}$ of validatePlate.
PlateRegexMatch(s) ==
  \E d1 \in 2..3, l \in 1..3, d2 \in 1..4 :
    /\ Len(s) = d1 + l + d2
    /\ \A i \in 1..d1 : s[i] \in DigitChars
    /\ \A i \in (d1 + 1)..(d1 + l) : s[i] \in Range(UpperChars)
    /\ \A i \in (d1 + l + 1)..(d1 + l + d2) : s[i] \in DigitChars

ErrPlateRequired == "plate is required"
ErrPlateFormat ==
  "plate must be in format: 2-3 digits, 1-3 letters, 1-4 digits (e.g., 34ABC123)"

\* driverUseCase.validatePlate.
ValidatePlate(plate) ==
  IF plate = <<>> THEN ErrPlateRequired
  ELSE IF ~PlateRegexMatch(ToUpper(plate)) THEN ErrPlateFormat
  ELSE NoError

\* fmt.Errorf("invalid taxiType: %s. Must be one of: sari, turkuaz, siyah")
\* and fmt.Errorf("invalid taxiType: %s"): the message carries the value.
ErrInvalidTaxiTypeCreate(t) ==
  "invalid taxiType: " \o t \o ". Must be one of: sari, turkuaz, siyah"
ErrInvalidTaxiTypeUpdate(t) == "invalid taxiType: " \o t

\* usecase.CreateDriverRequest.
CreateDriverRequest(firstName, lastName, plate, taxiType, carBrand, carModel, lat, lon) ==
  [firstName |-> firstName, lastName |-> lastName, plate |-> plate,
   taxiType |-> taxiType, carBrand |-> carBrand, carModel |-> carModel,
   lat |-> lat, lon |-> lon]

\* Mutant: the plate is not checked.
ValidateCreateRequestNoPlate(req) ==
  IF req.firstName = "" THEN "firstName is required"
  ELSE IF req.lastName = "" THEN "lastName is required"
  ELSE IF ~IsValid(req.taxiType) THEN ErrInvalidTaxiTypeCreate(req.taxiType)
  ELSE IF req.carBrand = "" THEN "carBrand is required"
  ELSE IF req.carModel = "" THEN "carModel is required"
  ELSE ValidateLocation(req.lat, req.lon)

\* driverUseCase.validateCreateRequest: the first failing check, in the
\* order of the code.
ValidateCreateRequest(req) ==
  IF req.firstName = "" THEN "firstName is required"
  ELSE IF req.lastName = "" THEN "lastName is required"
  ELSE IF ValidatePlate(req.plate) # NoError THEN ValidatePlate(req.plate)
  ELSE IF ~IsValid(req.taxiType) THEN ErrInvalidTaxiTypeCreate(req.taxiType)
  ELSE IF req.carBrand = "" THEN "carBrand is required"
  ELSE IF req.carModel = "" THEN "carModel is required"
  ELSE ValidateLocation(req.lat, req.lon)

(***************************************************************************)
(* The drivers collection as the record operations see it: store[k] is the *)
(* document inserted k-th, under the id k. An id is a positive number; 0   *)
(* stands for a string that is no ObjectID hex.                            *)
(***************************************************************************)
NotHex == 0
IsObjectIDHex(id) == id # NotHex

\* A fault of the store during one operation: the store call that fails and
\* the text of its error.
NoFault == [call |-> "none", text |-> ""]
Fault(call, text) == [call |-> call, text |-> text]

ErrInvalidDriverID == "invalid driver ID"
ErrDriverNotFound == "driver not found"

\* The zero domain.Driver (what a nil *domain.Driver stands for here).
NilDriver ==
  [id |-> NotHex, firstName |-> "", lastName |-> "", plate |-> <<>>,
   taxiType |-> "", carBrand |-> "", carModel |-> "",
   location |-> Location(0, 0), createdAt |-> 0, updatedAt |-> 0]

\* DriverRepository.Create: stamps the driver, InsertOne, the new id.
RepositoryCreate(st, now, driver, fault) ==
  LET stamped == [driver EXCEPT !.createdAt = now, !.updatedAt = now]
  IN IF fault.call = "InsertOne"
       THEN [err |-> fault.text, store |-> st, driver |-> stamped]
     ELSE LET inserted == [stamped EXCEPT !.id = Len(st) + 1]
          IN [err |-> NoError, store |-> Append(st, inserted), driver |-> inserted]

\* DriverRepository.GetByID
GetByID(st, id, fault) ==
  IF ~IsObjectIDHex(id) THEN [err |-> ErrInvalidDriverID, driver |-> NilDriver]
  ELSE IF fault.call = "FindOne" THEN [err |-> fault.text, driver |-> NilDriver]
  ELSE IF id \notin 1..Len(st) THEN [err |-> ErrDriverNotFound, driver |-> NilDriver]
  ELSE [err |-> NoError, driver |-> st[id]]

\* The $set of DriverRepository.Update applied to the matched document.
SetFields(doc, driver, now) ==
  [doc EXCEPT !.firstName = driver.firstName, !.lastName = driver.lastName,
              !.plate = driver.plate, !.taxiType = driver.taxiType,
              !.carBrand = driver.carBrand, !.carModel = driver.carModel,
              !.location = driver.location, !.updatedAt = now]

\* DriverRepository.Update: UpdateOne on the id, "driver not found" when
\* nothing matched.
RepositoryUpdate(st, now, id, driver, fault) ==
  IF ~IsObjectIDHex(id) THEN [err |-> ErrInvalidDriverID, store |-> st]
  ELSE IF fault.call = "UpdateOne" THEN [err |-> fault.text, store |-> st]
  ELSE IF id \notin 1..Len(st) THEN [err |-> ErrDriverNotFound, store |-> st]
  ELSE [err |-> NoError,
        store |-> [st EXCEPT ![id] = SetFields(st[id], driver, now)]]

(***************************************************************************)
(* Go's int (64 bits, two's complement, wrapping) as four 16-bit limbs,    *)
(* least significant first.                                                *)
(***************************************************************************)
LimbBase == 65536
SignLimb == 32768

\* The int of a number small enough for one machine word of the checker.
Int64(n) ==
  <<n % LimbBase, (n \div LimbBase) % LimbBase,
    IF n < 0 THEN LimbBase - 1 ELSE 0, IF n < 0 THEN LimbBase - 1 ELSE 0>>

MaxInt64 == <<LimbBase - 1, LimbBase - 1, LimbBase - 1, SignLimb - 1>>
MinInt64 == <<0, 0, 0, SignLimb>>

IsNegative(x) == x[4] >= SignLimb

\* x < n and x > n for an int x and a number n in 0..LimbBase-1.
LessThan(x, n) ==
  IsNegative(x) \/ (x[4] = 0 /\ x[3] = 0 /\ x[2] = 0 /\ x[1] < n)
GreaterThan(x, n) ==
  ~IsNegative(x) /\ (x[4] # 0 \/ x[3] # 0 \/ x[2] # 0 \/ x[1] > n)

\* x + y and x * k (k a number in 0..LimbBase-1), wrapping.
Add(x, y) ==
  LET s1 == x[1] + y[1]
      s2 == x[2] + y[2] + s1 \div LimbBase
      s3 == x[3] + y[3] + s2 \div LimbBase
      s4 == x[4] + y[4] + s3 \div LimbBase
  IN <<s1 % LimbBase, s2 % LimbBase, s3 % LimbBase, s4 % LimbBase>>
Mul(x, k) ==
  LET p1 == x[1] * k
      p2 == x[2] * k + p1 \div LimbBase
      p3 == x[3] * k + p2 \div LimbBase
      p4 == x[4] * k + p3 \div LimbBase
  IN <<p1 % LimbBase, p2 % LimbBase, p3 % LimbBase, p4 % LimbBase>>

\* The number of an int in 0..2^31-1.
IsSmall(x) == x[4] = 0 /\ x[3] = 0 /\ x[2] < SignLimb
Small(x) == x[1] + x[2] * LimbBase

(***************************************************************************)
(* DriverRepository.List: the count, then the page of the documents sorted *)
(* by createdAt descending (documents of one instant in insertion order).  *)
(* The store refuses a negative skip. page and pageSize are ints, pageSize *)
(* in 1..100 as the use case passes it.                                    *)
(***************************************************************************)
ErrNegativeSkip == "skip must be >= 0"

\* The number of documents the sort puts before document i.
Rank(st, i) ==
  Cardinality({j \in 1..Len(st) :
     \/ st[j].createdAt > st[i].createdAt
     \/ (st[j].createdAt = st[i].createdAt /\ j < i)})

SortByCreatedAtDesc(st) ==
  [r \in 1..Len(st) |-> st[CHOOSE i \in 1..Len(st) : Rank(st, i) = r - 1]]

\* skip := (page - 1) * pageSize
Skip(page, pageSize) == Mul(Add(page, Int64(-1)), Small(pageSize))

\* The documents a Find with that skip and limit returns.
FindPage(st, skip, limit) ==
  IF ~IsSmall(skip) \/ Small(skip) >= Len(st) THEN <<>>
  ELSE LET last == IF Small(skip) + Small(limit) < Len(st)
                     THEN Small(skip) + Small(limit) ELSE Len(st)
       IN SubSeq(SortByCreatedAtDesc(st), Small(skip) + 1, last)

List(st, page, pageSize, fault) ==
  LET skip == Skip(page, pageSize)
  IN IF fault.call = "CountDocuments"
       THEN [err |-> fault.text, drivers |-> <<>>, totalCount |-> 0]
     ELSE IF fault.call = "Find"
       THEN [err |-> fault.text, drivers |-> <<>>, totalCount |-> 0]
     ELSE IF IsNegative(skip)
       THEN [err |-> ErrNegativeSkip, drivers |-> <<>>, totalCount |-> 0]
     ELSE [err |-> NoError, drivers |-> FindPage(st, skip, pageSize),
           totalCount |-> Len(st)]

(***************************************************************************)
(* The use case: CreateDriver, UpdateDriver, GetDriver, ListDrivers. Each  *)
(* operator returns the error, the store afterwards and the repository     *)
(* calls made, in order.                                                   *)
(***************************************************************************)

\* A driver built with the plate as the request spells it.
NewDriverPlateAsGiven(req) ==
  [NilDriver EXCEPT !.firstName = req.firstName, !.lastName = req.lastName,
                    !.plate = req.plate, !.taxiType = req.taxiType,
                    !.carBrand = req.carBrand, !.carModel = req.carModel,
                    !.location = Location(req.lat, req.lon)]

\* The domain.Driver CreateDriver builds from a valid request.
NewDriver(req) ==
  [NilDriver EXCEPT !.firstName = req.firstName, !.lastName = req.lastName,
                    !.plate = ToUpper(req.plate), !.taxiType = req.taxiType,
                    !.carBrand = req.carBrand, !.carModel = req.carModel,
                    !.location = Location(req.lat, req.lon)]

CreateDriver(st, now, req, fault) ==
  LET invalid == ValidateCreateRequest(req)
      r == RepositoryCreate(st, now, NewDriver(req), fault)
  IN IF invalid # NoError
       THEN [err |-> invalid, store |-> st, calls |-> <<>>, driver |-> NilDriver]
     ELSE IF r.err # NoError
       THEN [err |-> "failed to create driver", store |-> r.store,
             calls |-> <<"Create">>, driver |-> NilDriver]
     ELSE [err |-> NoError, store |-> r.store, calls |-> <<"Create">>,
           driver |-> r.driver]

\* usecase.UpdateDriverRequest: a record that has a field exactly when the
\* pointer of that field is not nil.
Has(req, field) == field \in DOMAIN req

\* The checks of UpdateDriver on the fields provided: the first failing one,
\* in the order of the code.
ValidateUpdateRequest(req) ==
  IF Has(req, "firstName") /\ req.firstName = "" THEN "firstName cannot be empty"
  ELSE IF Has(req, "lastName") /\ req.lastName = "" THEN "lastName cannot be empty"
  ELSE IF Has(req, "plate") /\ ValidatePlate(req.plate) # NoError
    THEN ValidatePlate(req.plate)
  ELSE IF Has(req, "taxiType") /\ ~IsValid(req.taxiType)
    THEN ErrInvalidTaxiTypeUpdate(req.taxiType)
  ELSE IF Has(req, "carBrand") /\ req.carBrand = "" THEN "carBrand cannot be empty"
  ELSE IF Has(req, "carModel") /\ req.carModel = "" THEN "carModel cannot be empty"
  ELSE IF Has(req, "location")
    THEN ValidateLocation(req.location.lat, req.location.lon)
  ELSE NoError

\* Mutant: fields the request does not provide are reset.
ApplyUpdateResetting(existing, req) ==
  [NilDriver EXCEPT
     !.id = existing.id, !.createdAt = existing.createdAt,
     !.firstName = IF Has(req, "firstName") THEN req.firstName ELSE @,
     !.lastName = IF Has(req, "lastName") THEN req.lastName ELSE @,
     !.plate = IF Has(req, "plate") THEN ToUpper(req.plate) ELSE @,
     !.taxiType = IF Has(req, "taxiType") THEN req.taxiType ELSE @,
     !.carBrand = IF Has(req, "carBrand") THEN req.carBrand ELSE @,
     !.carModel = IF Has(req, "carModel") THEN req.carModel ELSE @,
     !.location = IF Has(req, "location") THEN req.location ELSE @]

\* The driver UpdateDriver hands to the repository: the one it fetched, the
\* provided fields overwritten.
ApplyUpdate(existing, req) ==
  [existing EXCEPT
     !.firstName = IF Has(req, "firstName") THEN req.firstName ELSE @,
     !.lastName = IF Has(req, "lastName") THEN req.lastName ELSE @,
     !.plate = IF Has(req, "plate") THEN ToUpper(req.plate) ELSE @,
     !.taxiType = IF Has(req, "taxiType") THEN req.taxiType ELSE @,
     !.carBrand = IF Has(req, "carBrand") THEN req.carBrand ELSE @,
     !.carModel = IF Has(req, "carModel") THEN req.carModel ELSE @,
     !.location = IF Has(req, "location") THEN req.location ELSE @]

\* An UpdateDriver that writes the fields it has accepted before it returns
\* the error of a later one.
UpdateDriverWritingThrough(st, now, id, req, fault) ==
  LET g == GetByID(st, id, fault)
      invalid == ValidateUpdateRequest(req)
      updated == ApplyUpdate(g.driver, req)
      r == RepositoryUpdate(st, now, id, updated, fault)
  IN IF g.err # NoError
       THEN [err |-> ErrDriverNotFound, store |-> st,
             calls |-> <<"GetByID">>, driver |-> NilDriver]
     ELSE IF invalid # NoError
       THEN [err |-> invalid, store |-> r.store, calls |-> <<"GetByID">>,
             driver |-> NilDriver]
     ELSE IF r.err # NoError
       THEN [err |-> "failed to update driver", store |-> r.store,
             calls |-> <<"GetByID", "Update">>, driver |-> NilDriver]
     ELSE [err |-> NoError, store |-> r.store,
           calls |-> <<"GetByID", "Update">>,
           driver |-> [updated EXCEPT !.updatedAt = now]]

UpdateDriver(st, now, id, req, fault) ==
  LET g == GetByID(st, id, fault)
      invalid == ValidateUpdateRequest(req)
      updated == ApplyUpdate(g.driver, req)
      r == RepositoryUpdate(st, now, id, updated, fault)
  IN IF g.err # NoError
       THEN [err |-> ErrDriverNotFound, store |-> st,
             calls |-> <<"GetByID">>, driver |-> NilDriver]
     ELSE IF invalid # NoError
       THEN [err |-> invalid, store |-> st, calls |-> <<"GetByID">>,
             driver |-> NilDriver]
     ELSE IF r.err # NoError
       THEN [err |-> "failed to update driver", store |-> r.store,
             calls |-> <<"GetByID", "Update">>, driver |-> NilDriver]
     ELSE [err |-> NoError, store |-> r.store,
           calls |-> <<"GetByID", "Update">>,
           driver |-> [updated EXCEPT !.updatedAt = now]]

GetDriver(st, id, fault) ==
  LET g == GetByID(st, id, fault)
  IN IF g.err # NoError
       THEN [err |-> ErrDriverNotFound, store |-> st, calls |-> <<"GetByID">>,
             driver |-> NilDriver]
     ELSE [err |-> NoError, store |-> st, calls |-> <<"GetByID">>,
           driver |-> g.driver]

\* The page and pageSize ListDrivers works with.
NormalizePage(page) == IF LessThan(page, 1) THEN Int64(1) ELSE page
NormalizePageSize(pageSize) ==
  LET atLeastOne == IF LessThan(pageSize, 1) THEN Int64(20) ELSE pageSize
  IN IF GreaterThan(atLeastOne, 100) THEN Int64(100) ELSE atLeastOne

ListDrivers(st, page, pageSize, fault) ==
  LET p == NormalizePage(page)
      ps == NormalizePageSize(pageSize)
      r == List(st, p, ps, fault)
  IN IF r.err # NoError
       THEN [err |-> "failed to list drivers", store |-> st, calls |-> <<"List">>,
             listArgs |-> <<p, ps>>, drivers |-> <<>>, totalCount |-> 0,
             page |-> Int64(0), pageSize |-> Int64(0)]
     ELSE [err |-> NoError, store |-> st, calls |-> <<"List">>,
           listArgs |-> <<p, ps>>, drivers |-> r.drivers,
           totalCount |-> r.totalCount, page |-> p, pageSize |-> ps]

(***************************************************************************)
(* The HTTP handler of the driver service. A JSON object is a record that  *)
(* has a field exactly for the members the body carries.                   *)
(***************************************************************************)
Response(status, code, message) ==
  [status |-> status, code |-> code, message |-> message]

\* A 2xx response (the body is the use case's result).
Success(status) == Response(status, "", "")

isValidationError(err) ==
  err # NoError /\ err \in
    {"firstName is required", "lastName is required", "plate is required",
     "carBrand is required", "carModel is required",
     "latitude must be between -90 and 90",
     "longitude must be between -180 and 180",
     "driver not found", "invalid driver ID"}

\* The member of a JSON object, or the zero value when it is absent.
Member(object, key, zero) == IF key \in DOMAIN object THEN object[key] ELSE zero

\* ShouldBindJSON into CreateDriverRequest: every field is `required`, which
\* a zero value (an empty string, the number 0) does not satisfy.
BindCreate(body) ==
  LET req == CreateDriverRequest(
        Member(body, "firstName", ""), Member(body, "lastName", ""),
        Member(body, "plate", <<>>), Member(body, "taksiType", ""),
        Member(body, "carBrand", ""), Member(body, "carModel", ""),
        Member(body, "lat", 0), Member(body, "lon", 0))
      missing ==
        \/ req.firstName = "" \/ req.lastName = "" \/ req.plate = <<>>
        \/ req.taxiType = "" \/ req.carBrand = "" \/ req.carModel = ""
        \/ req.lat = 0 \/ req.lon = 0
  IN [err |-> IF missing THEN "failed on the 'required' tag" ELSE NoError,
      req |-> req]

\* ShouldBindJSON into UpdateDriverRequest: the members firstName, lastName,
\* plate, taksiType, carBrand, carModel and the nested object location; any
\* other member of the body is ignored, and a member missing from location
\* is 0.
UpdateMembers ==
  {"firstName", "lastName", "plate", "taksiType", "carBrand", "carModel",
   "location"}
FieldOfMember(key) == IF key = "taksiType" THEN "taxiType" ELSE key
MemberOfField(field) == IF field = "taxiType" THEN "taksiType" ELSE field

BindUpdate(body) ==
  [field \in {FieldOfMember(key) : key \in DOMAIN body \cap UpdateMembers} |->
     IF field = "location"
       THEN Location(Member(body.location, "lat", 0),
                     Member(body.location, "lon", 0))
     ELSE body[MemberOfField(field)]]

\* What one exchange with the driver service leaves behind: the response,
\* whether the use case was invoked, its error, the store afterwards and the
\* repository calls made.
Handled(response, invoked, r) ==
  [response |-> response, invoked |-> invoked] @@ r
NotInvoked(st) ==
  [err |-> NoError, store |-> st, calls |-> <<>>, driver |-> NilDriver]

\* DriverHandler.CreateDriver
HandleCreateDriver(st, now, body, fault) ==
  LET b == BindCreate(body)
      r == CreateDriver(st, now, b.req, fault)
  IN IF b.err # NoError
       THEN Handled(Response(400, "VALIDATION_ERROR", b.err), FALSE, NotInvoked(st))
     ELSE IF r.err = NoError THEN Handled(Success(201), TRUE, r)
     ELSE IF isValidationError(r.err)
       THEN Handled(Response(400, "VALIDATION_ERROR", r.err), TRUE, r)
     ELSE Handled(Response(500, "INTERNAL_ERROR", "failed to create driver"), TRUE, r)

\* The path parameter of a request without one.
NoID == -1

\* DriverHandler.UpdateDriver
HandleUpdateDriver(st, now, id, body, fault) ==
  LET r == UpdateDriver(st, now, id, BindUpdate(body), fault)
  IN IF id = NoID
       THEN Handled(Response(400, "VALIDATION_ERROR", "driver ID is required"),
                    FALSE, NotInvoked(st))
     ELSE IF r.err = NoError THEN Handled(Success(200), TRUE, r)
     ELSE IF r.err = "driver not found"
       THEN Handled(Response(404, "NOT_FOUND", "driver not found"), TRUE, r)
     ELSE IF isValidationError(r.err)
       THEN Handled(Response(400, "VALIDATION_ERROR", r.err), TRUE, r)
     ELSE Handled(Response(500, "INTERNAL_ERROR", "failed to update driver"), TRUE, r)

\* Mutant: every error of the use case is answered 500.
HandleGetDriverAlwaysInternal(st, id, fault) ==
  LET r == GetDriver(st, id, fault)
  IN IF r.err = NoError THEN Handled(Success(200), TRUE, r)
     ELSE Handled(Response(500, "INTERNAL_ERROR", "failed to get driver"), TRUE, r)

\* DriverHandler.GetDriver
HandleGetDriver(st, id, fault) ==
  LET r == GetDriver(st, id, fault)
  IN IF id = NoID
       THEN Handled(Response(400, "VALIDATION_ERROR", "driver ID is required"),
                    FALSE, NotInvoked(st))
     ELSE IF r.err = NoError THEN Handled(Success(200), TRUE, r)
     ELSE IF r.err = "driver not found"
       THEN Handled(Response(404, "NOT_FOUND", "driver not found"), TRUE, r)
     ELSE Handled(Response(500, "INTERNAL_ERROR", "failed to get driver"), TRUE, r)

\* strconv.Atoi of a query parameter, its error dropped: the number of a
\* numeral, 0 for a text that is no numeral, the largest (smallest) int for
\* a numeral beyond the range of int.
QueryNumeral(n) == [kind |-> "numeral", value |-> n]
QueryText == [kind |-> "text", value |-> 0]
QueryTooLarge == [kind |-> "tooLarge", value |-> 0]
QueryTooSmall == [kind |-> "tooSmall", value |-> 0]
QueryAbsent == [kind |-> "absent", value |-> 0]

Atoi(param) ==
  IF param.kind = "numeral" THEN Int64(param.value)
  ELSE IF param.kind = "tooLarge" THEN MaxInt64
  ELSE IF param.kind = "tooSmall" THEN MinInt64
  ELSE Int64(0)

\* c.DefaultQuery
DefaultQuery(param, default) ==
  IF param.kind = "absent" THEN QueryNumeral(default) ELSE param

\* DriverHandler.ListDrivers
HandleListDrivers(st, pageParam, pageSizeParam, fault) ==
  LET page == Atoi(DefaultQuery(pageParam, 1))
      pageSize == Atoi(DefaultQuery(pageSizeParam, 20))
      r == ListDrivers(st, page, pageSize, fault)
  IN IF r.err # NoError
       THEN Handled(Response(500, "INTERNAL_ERROR", "failed to list drivers"),
                    TRUE, r)
     ELSE Handled(Success(200), TRUE, r)

(***************************************************************************)
(* Inputs of the driver records.                                           *)
(***************************************************************************)
PlateLower == <<"3", "4", "a", "b", "c", "1", "2", "3">>
PlateUpper == <<"3", "4", "A", "B", "C", "1", "2", "3">>
PlateOther == <<"3", "4", "x", "Y", "z", "7", "8", "9">>
PlateShort == <<"3", "4", "G", "9">>
MalformedPlates ==
  { <<"I", "N", "V", "A", "L", "I", "D">>,
    <<"1", "A", "1">>,                                \* one leading digit
    <<"3", "4", "3", "4", "A", "1">>,                 \* four leading digits
    <<"3", "4", "1">>,                                \* no letter
    <<"3", "4", "A", "B", "C", "D", "1">>,            \* four letters
    <<"3", "4", "A">>,                                \* no trailing digit
    <<"3", "4", "A", "1", "2", "3", "4", "5">>,       \* five trailing digits
    <<"3", "4", " ", "A", "1">>,                      \* a space
    <<"3", "4", "A", "1", "B">> }                     \* a trailing letter

FaultTexts == {"connection refused", "context deadline exceeded"}
Faults(call) == {Fault(call, text) : text \in FaultTexts}

ValidCreate ==
  CreateDriverRequest("Ahmet", "Demir", PlateLower, TaxiTypeSari, "Toyota",
                      "Corolla", Besiktas.lat, Besiktas.lon)

\* CreateDriver requests: the valid one, and it with one field made invalid.
InvalidCreates ==
  { [ValidCreate EXCEPT !.firstName = ""], [ValidCreate EXCEPT !.lastName = ""],
    [ValidCreate EXCEPT !.plate = <<>>],
    [ValidCreate EXCEPT !.taxiType = "mavi"], [ValidCreate EXCEPT !.taxiType = ""],
    [ValidCreate EXCEPT !.carBrand = ""], [ValidCreate EXCEPT !.carModel = ""],
    [ValidCreate EXCEPT !.lat = Lat100.lat], [ValidCreate EXCEPT !.lat = -Lat100.lat],
    [ValidCreate EXCEPT !.lon = Lon200.lon], [ValidCreate EXCEPT !.lon = -Lon200.lon] }
  \cup {[ValidCreate EXCEPT !.plate = p] : p \in MalformedPlates}

CreateCalls ==
  {<<req, NoFault>> : req \in {ValidCreate} \cup InvalidCreates}
  \cup {<<ValidCreate, f>> : f \in Faults("InsertOne")}

\* UpdateDriver requests. Every field is provided by one of the first two
\* and left out by the other.
UpdateNamePlateBrand ==
  [firstName |-> "Mehmet", plate |-> PlateOther, carBrand |-> "Honda"]
UpdateRest ==
  [lastName |-> "Kurt", taxiType |-> TaxiTypeTurkuaz, carModel |-> "Civic",
   location |-> Istanbul]
UpdateNothing == <<>>
ValidUpdates == {UpdateNamePlateBrand, UpdateRest, UpdateNothing}
InvalidUpdates ==
  { [firstName |-> ""], [lastName |-> ""], [plate |-> <<>>],
    [plate |-> <<"I", "N", "V", "A", "L", "I", "D">>], [taxiType |-> "mavi"],
    [carBrand |-> ""], [carModel |-> ""], [location |-> Lat100],
    [location |-> Lon200],
    [firstName |-> "Mehmet", carModel |-> ""],
    [lastName |-> "Kurt", location |-> Lon200] }

\* Ids: those of the stored drivers, one no stored driver has, and a string
\* that is no ObjectID hex.
DriverIDs == (1..(MaxStored + 1)) \cup {NotHex}

UpdateCalls ==
  {<<id, req, NoFault>> : id \in DriverIDs, req \in ValidUpdates}
  \cup {<<id, req, NoFault>> : id \in {1, MaxStored + 1}, req \in InvalidUpdates}
  \cup {<<1, UpdateNamePlateBrand, f>> : f \in Faults("FindOne") \cup Faults("UpdateOne")}

GetCalls ==
  {<<id, NoFault>> : id \in DriverIDs}
  \cup {<<1, f>> : f \in Faults("FindOne")}

Pages == {Int64(-1), Int64(0), Int64(1), Int64(2), Int64(3), MaxInt64, MinInt64}
PageSizes == {Int64(-5), Int64(0), Int64(1), Int64(2), Int64(20), Int64(100),
              Int64(101), MaxInt64}
ListCalls ==
  {<<p, ps, NoFault>> : p \in Pages, ps \in PageSizes}
  \cup {<<Int64(1), Int64(20), f>> : f \in Faults("CountDocuments") \cup Faults("Find")}

(***************************************************************************)
(* The driver records at the use case: the stored documents, the clock     *)
(* that time.Now() reads, and the call whose result the caller is holding. *)
(***************************************************************************)
Exchange(op, input, fault, before, result) ==
  [op |-> op, input |-> input, fault |-> fault, before |-> before,
   result |-> result]

UseCaseCreateDriver(req, fault) ==
  /\ out.op = "idle"
  /\ Len(store) < MaxStored
  /\ LET r == CreateDriver(store, clock, req, fault)
     IN /\ store' = r.store
        /\ out' = Exchange("CreateDriver", [req |-> req], fault, store, r)
  /\ UNCHANGED <<clock, searchVars, gatewayVars, procs>>

UseCaseUpdateDriver(id, req, fault) ==
  /\ out.op = "idle"
  /\ LET r == UpdateDriver(store, clock, id, req, fault)
     IN /\ store' = r.store
        /\ out' = Exchange("UpdateDriver", [id |-> id, req |-> req], fault, store, r)
  /\ UNCHANGED <<clock, searchVars, gatewayVars, procs>>

UseCaseGetDriver(id, fault) ==
  /\ out.op = "idle"
  /\ LET r == GetDriver(store, id, fault)
     IN /\ store' = r.store
        /\ out' = Exchange("GetDriver", [id |-> id], fault, store, r)
  /\ UNCHANGED <<clock, searchVars, gatewayVars, procs>>

UseCaseListDrivers(page, pageSize, fault) ==
  /\ out.op = "idle"
  /\ LET r == ListDrivers(store, page, pageSize, fault)
     IN /\ store' = r.store
        /\ out' = Exchange("ListDrivers", [page |-> page, pageSize |-> pageSize],
                           fault, store, r)
  /\ UNCHANGED <<clock, searchVars, gatewayVars, procs>>

\* Time passes.
Tick ==
  /\ out.op = "idle"
  /\ clock < MaxClock
  /\ clock' = clock + 1
  /\ UNCHANGED <<store, out, searchVars, gatewayVars, procs>>

\* The caller has consumed the result.
Finish ==
  /\ out.op # "idle"
  /\ out' = NoExchange
  /\ UNCHANGED <<store, clock, searchVars, gatewayVars, procs>>

NextDrivers ==
  \/ \E c \in CreateCalls : UseCaseCreateDriver(c[1], c[2])
  \/ \E c \in UpdateCalls : UseCaseUpdateDriver(c[1], c[2], c[3])
  \/ \E c \in GetCalls : UseCaseGetDriver(c[1], c[2])
  \/ \E c \in ListCalls : UseCaseListDrivers(c[1], c[2], c[3])
  \/ Tick
  \/ Finish

SpecDrivers == Init /\ [][NextDrivers]_vars

(***************************************************************************)
(* Vocabulary of the properties of the driver records.                     *)
(***************************************************************************)
Called(op) == out.op = op
Failed == out.result.err # NoError

\* The number of leading elements of s that are in set.
LeadingRun(s, set) ==
  CHOOSE n \in 0..Len(s) :
    /\ \A i \in 1..n : s[i] \in set
    /\ n < Len(s) => s[n + 1] \notin set

\* A plate of 2-3 digits, then 1-3 letters, then 1-4 digits.
PlateForm(s) ==
  LET letters == Range(LowerChars) \cup Range(UpperChars)
      d == LeadingRun(s, DigitChars)
      afterDigits == SubSeq(s, d + 1, Len(s))
      l == LeadingRun(afterDigits, letters)
      tail == SubSeq(afterDigits, l + 1, Len(afterDigits))
  IN /\ d \in 2..3
     /\ l \in 1..3
     /\ Len(tail) \in 1..4
     /\ \A i \in 1..Len(tail) : tail[i] \in DigitChars

\* An invalid input of CreateDriver.
InvalidCreateInput(req) ==
  \/ req.firstName = "" \/ req.lastName = "" \/ req.plate = <<>>
  \/ req.carBrand = "" \/ req.carModel = ""
  \/ ~PlateForm(req.plate)
  \/ req.taxiType \notin {TaxiTypeSari, TaxiTypeTurkuaz, TaxiTypeSiyah}
  \/ ~InRange(Location(req.lat, req.lon))

(***************************************************************************)
(* C11: CreateDriver with an invalid input (an empty firstName, lastName,  *)
(* plate, carBrand or carModel, a plate not of the form 2-3 digits, 1-3    *)
(* letters, 1-4 digits, a taxi type outside sari, turkuaz, siyah, or a     *)
(* latitude or longitude out of range) returns an error, calls no          *)
(* repository method and leaves the stored drivers as they were.           *)
(***************************************************************************)
C11_InvalidCreateRejected ==
  (Called("CreateDriver") /\ InvalidCreateInput(out.input.req)) =>
    /\ Failed
    /\ out.result.calls = <<>>
    /\ store = out.before

\* A create with a malformed plate was rejected while a driver is stored.
C11_Witness ==
  /\ Called("CreateDriver")
  /\ out.input.req.plate \in MalformedPlates
  /\ out.result.err = ErrPlateFormat
  /\ Len(store) = 1

\* The fields of a driver that an UpdateDriver request can provide.
UpdatableFields ==
  {"firstName", "lastName", "plate", "taxiType", "carBrand", "carModel",
   "location"}

\* The value the request asks for in a field it provides.
Requested(req, field) ==
  IF field = "plate" THEN ToUpper(req.plate) ELSE req[field]

Without(object, key) == [k \in DOMAIN object \ {key} |-> object[k]]

ValidBody ==
  [firstName |-> "Ahmet", lastName |-> "Demir", plate |-> PlateUpper,
   taksiType |-> TaxiTypeSari, carBrand |-> "Toyota", carModel |-> "Corolla",
   lat |-> Besiktas.lat, lon |-> Besiktas.lon]

CreateBodies ==
  { ValidBody, Without(ValidBody, "lon"), Without(ValidBody, "firstName"),
    [ValidBody EXCEPT !.lat = 0], [ValidBody EXCEPT !.carModel = ""],
    [ValidBody EXCEPT !.plate = <<"I", "N", "V", "A", "L", "I", "D">>],
    [ValidBody EXCEPT !.taksiType = "mavi"],
    [ValidBody EXCEPT !.lat = Lat100.lat],
    [ValidBody EXCEPT !.lon = Lon200.lon] }

PostCalls ==
  {<<body, NoFault>> : body \in CreateBodies}
  \cup {<<ValidBody, f>> : f \in Faults("InsertOne")}

\* Bodies of PUT /drivers/:id: fields alone, the coordinates as top-level
\* members (one or both), and the coordinates inside a location object (one
\* or both).
UpdateBodies ==
  { [firstName |-> "Mehmet"], [plate |-> PlateShort, taksiType |-> TaxiTypeSiyah],
    [lat |-> Istanbul.lat], [lon |-> Istanbul.lon],
    [lat |-> Istanbul.lat, lon |-> Istanbul.lon],
    [location |-> [lat |-> Istanbul.lat]], [location |-> [lon |-> Istanbul.lon]],
    [location |-> [lat |-> Istanbul.lat, lon |-> Istanbul.lon]],
    [location |-> [lat |-> Lat100.lat, lon |-> Lat100.lon]],
    [firstName |-> ""], [lastName |-> ""], [carBrand |-> ""], [carModel |-> ""],
    [plate |-> <<>>], [plate |-> <<"I", "N", "V", "A", "L", "I", "D">>],
    [taksiType |-> "mavi"] }

PutCalls ==
  {<<id, body, NoFault>> : id \in {1, MaxStored + 1}, body \in UpdateBodies}
  \cup {<<id, [firstName |-> "Mehmet"], NoFault>> : id \in {NotHex, NoID}}
  \cup {<<1, [firstName |-> "Mehmet"], f>> :
          f \in Faults("FindOne") \cup Faults("UpdateOne")}

GetRequests ==
  {<<id, NoFault>> : id \in {1, MaxStored + 1, NotHex, NoID}}
  \cup {<<1, f>> : f \in Faults("FindOne")}

PageParams ==
  {QueryAbsent, QueryNumeral(0), QueryNumeral(2), QueryText, QueryTooLarge,
   QueryTooSmall}
PageSizeParams == {QueryAbsent, QueryNumeral(1), QueryNumeral(500), QueryText}
ListRequests ==
  {<<p, ps, NoFault>> : p \in PageParams, ps \in PageSizeParams}
  \cup {<<QueryAbsent, QueryAbsent, f>> :
          f \in Faults("CountDocuments") \cup Faults("Find")}

HandlerCreateDriver(body, fault) ==
  /\ out.op = "idle"
  /\ Len(store) < MaxStored
  /\ LET h == HandleCreateDriver(store, clock, body, fault)
     IN /\ store' = h.store
        /\ out' = Exchange("POST /drivers", [body |-> body], fault, store, h)
  /\ UNCHANGED <<clock, searchVars, gatewayVars, procs>>

HandlerUpdateDriver(id, body, fault) ==
  /\ out.op = "idle"
  /\ LET h == HandleUpdateDriver(store, clock, id, body, fault)
     IN /\ store' = h.store
        /\ out' = Exchange("PUT /drivers/:id", [id |-> id, body |-> body], fault,
                           store, h)
  /\ UNCHANGED <<clock, searchVars, gatewayVars, procs>>

HandlerGetDriver(id, fault) ==
  /\ out.op = "idle"
  /\ LET h == HandleGetDriver(store, id, fault)
     IN /\ store' = h.store
        /\ out' = Exchange("GET /drivers/:id", [id |-> id], fault, store, h)
  /\ UNCHANGED <<clock, searchVars, gatewayVars, procs>>

HandlerListDrivers(pageParam, pageSizeParam, fault) ==
  /\ out.op = "idle"
  /\ LET h == HandleListDrivers(store, pageParam, pageSizeParam, fault)
     IN /\ store' = h.store
        /\ out' = Exchange("GET /drivers",
                           [page |-> pageParam, pageSize |-> pageSizeParam],
                           fault, store, h)
  /\ UNCHANGED <<clock, searchVars, gatewayVars, procs>>

NextHandler ==
  \/ \E c \in PostCalls : HandlerCreateDriver(c[1], c[2])
  \/ \E c \in PutCalls : HandlerUpdateDriver(c[1], c[2], c[3])
  \/ \E c \in GetRequests : HandlerGetDriver(c[1], c[2])
  \/ \E c \in ListRequests : HandlerListDrivers(c[1], c[2], c[3])
  \/ Tick
  \/ Finish

SpecHandler == Init /\ [][NextHandler]_vars

\* The request went through the handler of that route to a stored driver,
\* the store answering without a fault.
Put == Called("PUT /drivers/:id")
Rejected == out.result.response.status >= 400

\* The body supplies exactly one of lat and lon, as top-level members or as
\* members of a location object.
SuppliesOneCoordinate(body) ==
  \/ ("lat" \in DOMAIN body) # ("lon" \in DOMAIN body)
  \/ /\ "location" \in DOMAIN body
     /\ ("lat" \in DOMAIN body.location) # ("lon" \in DOMAIN body.location)

(***************************************************************************)
(* C13: an update that supplies only one of lat and lon is rejected with   *)
(* an error and the stored location of the driver is unchanged.            *)
(***************************************************************************)
C13_OneCoordinateRejected ==
  (Put /\ out.input.id \in 1..Len(out.before) /\ out.fault = NoFault
     /\ SuppliesOneCoordinate(out.input.body)) =>
    /\ Rejected
    /\ store[out.input.id].location = out.before[out.input.id].location

Get == Called("GET /drivers/:id")

\* An id that no stored driver has.
UnknownID(id) == id # NoID /\ id \notin 1..Len(out.before)

(***************************************************************************)
(* C14: UpdateDriver and GetDriver for an id that no stored driver has     *)
(* return the error "driver not found", which the handler answers with     *)
(* HTTP 404 NOT_FOUND; the repository's Update is not called and the store *)
(* is unchanged.                                                           *)
(***************************************************************************)
C14_UnknownIdNotFound ==
  ((Put \/ Get) /\ UnknownID(out.input.id)) =>
    /\ out.result.err = "driver not found"
    /\ out.result.response = Response(404, "NOT_FOUND", "driver not found")
    /\ "Update" \notin Range(out.result.calls)
    /\ store = out.before

\* A driver is stored and a GET for another id was answered 404.
C14_Witness ==
  /\ Get
  /\ Len(store) = 1
  /\ out.input.id = MaxStored + 1
  /\ out.result.response.status = 404
  /\ out.result.calls = <<"GetByID">>

Post == Called("POST /drivers")

\* The use case was invoked and rejected the request for its input: it
\* returned an error before any write, the driver (of an update) found.
RejectedForInput ==
  \/ Post /\ out.result.invoked /\ Failed /\ out.result.calls = <<>>
  \/ /\ Put /\ out.result.invoked /\ Failed
     /\ out.result.calls = <<"GetByID">>
     /\ out.result.err # ErrDriverNotFound

(***************************************************************************)
(* C15: whenever the use case rejects a create or update request because   *)
(* of invalid input, the handler answers HTTP 400 with the code            *)
(* VALIDATION_ERROR, never 500.                                            *)
(***************************************************************************)
C15_InvalidInputIs400 ==
  RejectedForInput =>
    /\ out.result.response.status = 400
    /\ out.result.response.code = "VALIDATION_ERROR"

\* The page and pageSize the claim prescribes for the arguments of a call.
ClaimedPage(page) == IF LessThan(page, 1) THEN Int64(1) ELSE page
ClaimedPageSize(pageSize) ==
  IF LessThan(pageSize, 1) THEN Int64(20)
  ELSE IF GreaterThan(pageSize, 100) THEN Int64(100)
  ELSE pageSize

(***************************************************************************)
(* C16: ListDrivers never fails because of its paging arguments (it fails  *)
(* only when the store does): a page < 1 is treated as 1, a pageSize < 1   *)
(* as 20, a pageSize > 100 as 100, other values are used unchanged, and    *)
(* the page and pageSize passed to the repository and reported in the      *)
(* response are these values.                                              *)
(***************************************************************************)
C16_PagingNeverFails ==
  (Called("ListDrivers") /\ out.fault = NoFault) =>
    /\ ~Failed
    /\ out.result.listArgs =
         <<ClaimedPage(out.input.page), ClaimedPageSize(out.input.pageSize)>>
    /\ out.result.page = ClaimedPage(out.input.page)
    /\ out.result.pageSize = ClaimedPageSize(out.input.pageSize)

\* The 500 response of each route.
InternalError(op) ==
  Response(500, "INTERNAL_ERROR",
    CASE op = "POST /drivers" -> "failed to create driver"
      [] op = "PUT /drivers/:id" -> "failed to update driver"
      [] op = "GET /drivers/:id" -> "failed to get driver"
      [] op = "GET /drivers" -> "failed to list drivers")

\* A request with valid input (for the stored driver 1, if for one) failed
\* on a store call.
StoreFailed == out.op # "idle" /\ out.fault # NoFault /\ Len(out.before) >= 1

(***************************************************************************)
(* C20: whenever an operation of the driver service fails for a reason     *)
(* other than invalid input or a missing driver (a store call fails), the  *)
(* handler's response is HTTP 500 INTERNAL_ERROR with the fixed message of *)
(* the operation, whatever the text of the underlying error.               *)
(***************************************************************************)
C20_InternalFailureIs500 ==
  StoreFailed => out.result.response = InternalError(out.op)

(***************************************************************************)
(* The gateway's rate limiter (middleware/rate_limit.go).                  *)
(*                                                                         *)
(* The gateway's time is counted in refill intervals: one unit is          *)
(* Window / Requests, the interval of rate.Every(Window / Requests) at     *)
(* which a limiter gains one token, so that the window of                  *)
(* RATE_LIMIT_WINDOW_SEC seconds is Requests units long.  Requests is at   *)
(* least 1.                                                                *)
(***************************************************************************)
MaxTime == 4
MaxEvents == 5

ClientIPs == {"10.0.0.1", "10.0.0.2"}

\* config.RateLimitConfig; tenMinutes is the cleanup's 10 * time.Minute in
\* refill intervals (more than a window, or less when the window is long).
RateLimitConfig(enabled, requests, tenMinutes) ==
  [enabled |-> enabled, requests |-> requests, window |-> requests,
   tenMinutes |-> tenMinutes]

\* config.JWTConfig and the APIKey section the middlewares read.
JWTConfig(enabled, secret) == [enabled |-> enabled, secret |-> secret]
APIKeyConfig(enabled, keys) == [enabled |-> enabled, keys |-> keys]

\* config.Config as the gateway uses it.
Config(rateLimit, jwt, apiKey) ==
  [loaded |-> TRUE, rateLimit |-> rateLimit, jwt |-> jwt, apiKey |-> apiKey]

\* rate.NewLimiter(rate.Every(Window / Requests), Requests): a token bucket
\* of Requests tokens, full when first used.
NewLimiter(cfg, now) ==
  [tokens |-> cfg.requests, last |-> now, burst |-> cfg.requests]

\* The tokens of a limiter at the time now: one more per interval elapsed
\* since its last update, never more than its burst.
Advance(limiter, now) ==
  LET tokens == limiter.tokens + (now - limiter.last)
  IN IF tokens > limiter.burst THEN limiter.burst ELSE tokens

\* Limiter.Allow: takes one token when there is one.
Allow(limiter, now) ==
  LET tokens == Advance(limiter, now)
  IN IF tokens >= 1
       THEN [ok |-> TRUE,
             limiter |-> [limiter EXCEPT !.tokens = tokens - 1, !.last = now]]
       ELSE [ok |-> FALSE, limiter |-> limiter]

\* The entry of rl.clients for an IP, when there is one.
Exists(cl, ip) == \E c \in cl : c.ip = ip
ClientOf(cl, ip) == CHOOSE c \in cl : c.ip = ip

\* A getLimiter that makes a new limiter for every request.
getLimiterAlwaysNew(cl, cfg, now, ip) ==
  cl \cup {[ip |-> ip, limiter |-> NewLimiter(cfg, now), lastSeen |-> now,
            created |-> now]}

\* RateLimiter.getLimiter, under rl.mu: the IP's entry, created with a new
\* limiter when absent, its lastSeen set to now.  created is the time the
\* limiter was made; the code does not keep it, it tells the limiters of one
\* IP apart.
getLimiter(cl, cfg, now, ip) ==
  IF ~Exists(cl, ip)
    THEN cl \cup {[ip |-> ip, limiter |-> NewLimiter(cfg, now),
                   lastSeen |-> now, created |-> now]}
    ELSE LET c == ClientOf(cl, ip)
         IN (cl \ {c}) \cup {[c EXCEPT !.lastSeen = now]}

\* c.Next(): the middleware wrote no response of its own.
Passed == Response(0, "", "")

RateLimitExceeded ==
  Response(429, "RATE_LIMIT_EXCEEDED", "too many requests, please try again later")

\* RateLimiter.Limit for a request of the client IP: the clients afterwards,
\* whether c.Next() ran, the response of an aborted request and the limiter
\* that was asked (0 when rate limiting is disabled).
Limit(cl, cfg, now, ip) ==
  IF ~cfg.enabled
    THEN [clients |-> cl, admitted |-> TRUE, response |-> Passed,
          limiter |-> 0]
    ELSE LET got == getLimiter(cl, cfg, now, ip)
             c == ClientOf(got, ip)
             a == Allow(c.limiter, now)
         IN [clients |-> (got \ {c}) \cup {[c EXCEPT !.limiter = a.limiter]},
             admitted |-> a.ok,
             response |-> IF a.ok THEN Passed ELSE RateLimitExceeded,
             limiter |-> c.created]

\* One round of RateLimiter.cleanup: the entries not seen for more than ten
\* minutes are deleted.
cleanup(cl, cfg, now) == {c \in cl : ~(now - c.lastSeen > cfg.tenMinutes)}

(***************************************************************************)
(* The rate limiter under requests of several clients, the passing of time *)
(* and the cleanup; hist records what became of each request.              *)
(***************************************************************************)
DefaultJWT == JWTConfig(TRUE, "your-secret-key-change-in-production")
NoAPIKey == APIKeyConfig(FALSE, <<>>)

RateLimitConfigs ==
  {Config(RateLimitConfig(enabled, requests, tenMinutes), DefaultJWT, NoAPIKey) :
     enabled \in BOOLEAN, requests \in {1, 2}, tenMinutes \in {1, 3}}

InitRateLimit ==
  /\ collection = <<>>
  /\ resp = Idle
  /\ store = <<>>
  /\ clock = 1
  /\ out = NoExchange
  /\ config \in RateLimitConfigs
  /\ clients = NoClients
  /\ hist = <<>>
  /\ procs = <<>>

\* A request of the public route GET /drivers/:id from the client IP passes
\* through RateLimiter.Limit.
RateLimitedRequest(ip) ==
  /\ Len(hist) < MaxEvents
  /\ LET r == Limit(clients, config.rateLimit, clock, ip)
     IN /\ clients' = r.clients
        /\ hist' = Append(hist,
             [ip |-> ip, at |-> clock, limiter |-> r.limiter,
              outcome |-> IF r.admitted THEN "admitted" ELSE "limited"])
  /\ UNCHANGED <<config, clock, store, out, searchVars, procs>>

\* One refill interval passes.
Elapse ==
  /\ clock < MaxTime
  /\ clock' = clock + 1
  /\ UNCHANGED <<config, clients, hist, store, out, searchVars, procs>>

\* The cleanup goroutine's ticker fires.
CleanupRound ==
  /\ clients' = cleanup(clients, config.rateLimit, clock)
  /\ UNCHANGED <<config, clock, hist, store, out, searchVars, procs>>

NextRateLimit ==
  \/ \E ip \in ClientIPs : RateLimitedRequest(ip)
  \/ Elapse
  \/ CleanupRound

SpecRateLimit == InitRateLimit /\ [][NextRateLimit]_vars

(***************************************************************************)
(* C17: requests admitted per client and window.                           *)
(***************************************************************************)
Limiting == config.loaded /\ config.rateLimit.enabled

\* The requests of an IP that RateLimiter.Limit admitted at a time within
\* from..to.
AdmittedIn(ip, from, to) ==
  {i \in DOMAIN hist : /\ hist[i].ip = ip
                       /\ hist[i].outcome = "admitted"
                       /\ hist[i].at >= from
                       /\ hist[i].at <= to}

\* Those of them that were counted against the limiter made at the time
\* created.
AdmittedBy(ip, created, from, to) ==
  {i \in AdmittedIn(ip, from, to) : hist[i].limiter = created}

\* C17: with rate limiting enabled, within any window of
\* RATE_LIMIT_WINDOW_SEC seconds no more than RATE_LIMIT_REQUESTS requests
\* of one client IP are admitted.
C17_AtMostRequestsPerWindow ==
  Limiting =>
    \A ip \in ClientIPs, t \in 1..MaxTime :
      Cardinality(AdmittedIn(ip, t, t + config.rateLimit.window - 1))
        <= config.rateLimit.requests

\* What the token bucket does guarantee: while the entry of a client IP is
\* not evicted, over any k refill intervals at most RATE_LIMIT_REQUESTS + k
\* of its requests are admitted, hence at most twice RATE_LIMIT_REQUESTS
\* within any window; and a request is answered 429 only when at least
\* RATE_LIMIT_REQUESTS requests of that IP were admitted by the same limiter
\* within the window before it.
TokenBucketBound ==
  Limiting =>
    /\ \A ip \in ClientIPs, created \in 1..MaxTime, from \in 1..MaxTime,
          to \in 1..MaxTime :
         from <= to =>
           Cardinality(AdmittedBy(ip, created, from, to))
             <= config.rateLimit.requests + (to - from)
    /\ \A i \in DOMAIN hist :
         hist[i].outcome = "limited" =>
           Cardinality({j \in AdmittedBy(hist[i].ip, hist[i].limiter,
                                          hist[i].at - config.rateLimit.window,
                                          hist[i].at) : j < i})
             >= config.rateLimit.requests

(***************************************************************************)
(* The gateway's authentication middlewares (middleware/jwt.go,            *)
(* middleware/api_key.go) and its router (setupRouter).                    *)
(*                                                                         *)
(* A header value is the sequence of its fields between single spaces, as  *)
(* strings.Split(header, " ") yields them, <<>> for an absent header; the  *)
(* scheme, which the code compares and lower-cases, is a sequence of       *)
(* characters.                                                             *)
(***************************************************************************)
\* strings.ToLower, one character and a whole string.
ToLowerChar(c) ==
  IF \E i \in 1..Len(UpperChars) : UpperChars[i] = c
  THEN LowerChars[CHOOSE i \in 1..Len(UpperChars) : UpperChars[i] = c]
  ELSE c
ToLower(s) == [i \in 1..Len(s) |-> ToLowerChar(s[i])]

Bearer == <<"B", "e", "a", "r", "e", "r">>
Unauthorized(message) == Response(401, "UNAUTHORIZED", message)

\* A JSON Web Token as jwt.Parse decodes it: the algorithm of its header, the
\* secret its signature was made with, and its exp and nbf claims (NoTime
\* when the claim is absent).
NoTime == 0
Token(alg, key, exp, nbf) == [alg |-> alg, key |-> key, exp |-> exp, nbf |-> nbf]
Secret == "your-secret-key-change-in-production"
JWTs ==
  [t \in {"jwt-hs256-exp2", "jwt-hs512-noexp", "jwt-hs256-nbf2",
          "jwt-hs256-forged", "jwt-rs256", "jwt-none"} |->
     CASE t = "jwt-hs256-exp2" -> Token("HS256", Secret, 2, NoTime)
       [] t = "jwt-hs512-noexp" -> Token("HS512", Secret, NoTime, NoTime)
       [] t = "jwt-hs256-nbf2" -> Token("HS256", Secret, NoTime, 2)
       [] t = "jwt-hs256-forged" -> Token("HS256", "another-secret", 2, NoTime)
       [] t = "jwt-rs256" -> Token("RS256", Secret, NoTime, NoTime)
       [] t = "jwt-none" -> Token("none", Secret, NoTime, NoTime)]

\* jwt.SigningMethodHMAC
SigningMethodHMAC == {"HS256", "HS384", "HS512"}

\* jwt.Parse with the keyfunc of JWTAuth: the string decodes, the signing
\* method is an HMAC, the signature verifies under the configured secret and
\* the registered claims hold at the time now.
ParseJWT(tokenString, secret, now) ==
  IF tokenString \notin DOMAIN JWTs THEN "token is malformed"
  ELSE LET token == JWTs[tokenString]
       IN IF token.alg \notin SigningMethodHMAC THEN "token is unverifiable"
          ELSE IF token.key # secret THEN "signature is invalid"
          ELSE IF token.exp # NoTime /\ ~(now < token.exp) THEN "token is expired"
          ELSE IF token.nbf # NoTime /\ now < token.nbf THEN "token is not valid yet"
          ELSE NoError

\* A JWTAuth that lets every request with a Bearer header pass.
JWTAuthUnverified(jwt, now, authorization) ==
  IF ~jwt.enabled THEN Passed
  ELSE IF authorization = <<>>
    THEN Unauthorized("authorization header is required")
  ELSE IF Len(authorization) # 2 \/ authorization[1] # Bearer
    THEN Unauthorized("invalid authorization header format")
  ELSE Passed

\* middleware.JWTAuth
JWTAuth(jwt, now, authorization) ==
  IF ~jwt.enabled THEN Passed
  ELSE IF authorization = <<>>
    THEN Unauthorized("authorization header is required")
  ELSE IF Len(authorization) # 2 \/ authorization[1] # Bearer
    THEN Unauthorized("invalid authorization header format")
  ELSE IF ParseJWT(authorization[2], jwt.secret, now) # NoError
    THEN Unauthorized("invalid or expired token")
  ELSE Passed

\* isValidAPIKey
isValidAPIKey(key, validKeys) ==
  IF Len(validKeys) = 0 THEN FALSE
  ELSE \E i \in 1..Len(validKeys) : key = validKeys[i]

\* An APIKeyAuth that accepts any key when no key is configured.
APIKeyAuthOpenWhenEmpty(apiKeys, xAPIKey, authorization) ==
  IF ~apiKeys.enabled \/ Len(apiKeys.keys) = 0 THEN Passed
  ELSE IF xAPIKey = "" THEN Unauthorized("API key is required")
  ELSE IF ~isValidAPIKey(xAPIKey, apiKeys.keys) THEN Unauthorized("invalid API key")
  ELSE Passed

\* middleware.APIKeyAuth
APIKeyAuth(apiKeys, xAPIKey, authorization) ==
  LET apiKey ==
        IF xAPIKey # "" THEN xAPIKey
        ELSE IF /\ authorization # <<>>
                /\ Len(authorization) = 2
                /\ ToLower(authorization[1]) = <<"a", "p", "i", "k", "e", "y">>
          THEN authorization[2]
        ELSE ""
  IN IF ~apiKeys.enabled THEN Passed
     ELSE IF apiKey = "" THEN Unauthorized("API key is required")
     ELSE IF ~isValidAPIKey(apiKey, apiKeys.keys) THEN Unauthorized("invalid API key")
     ELSE Passed

\* setupRouter: the middleware in front of the handler of a driver route.
RouteAuth(cfg, route) ==
  IF route \in {"POST /drivers", "PUT /drivers/:id"} /\ cfg.jwt.enabled
    THEN "JWTAuth"
  ELSE IF route \in {"GET /drivers/nearby", "GET /drivers"} /\ cfg.apiKey.enabled
    THEN "APIKeyAuth"
  ELSE "none"

\* The gateway's DriverHandler before it calls the driver service: a body
\* that is not JSON (create, update) and a missing lat or lon (find nearby)
\* are answered 400.
Proxy(route, payload) ==
  IF route \in {"POST /drivers", "PUT /drivers/:id"} /\ payload = "not JSON"
    THEN Response(400, "VALIDATION_ERROR", "invalid character")
  ELSE IF route = "GET /drivers/nearby" /\ payload = "no lat"
    THEN Response(400, "VALIDATION_ERROR", "lat and lon are required")
  ELSE Passed

\* The router serving a request of a driver route: the rate limiter, the
\* route's authentication, the handler.  forwarded tells whether the request
\* was sent on to the driver service.
Answered(cl, response) ==
  [clients |-> cl, response |-> response, forwarded |-> FALSE]
ServeHTTP(cl, cfg, now, req) ==
  LET limited == Limit(cl, cfg.rateLimit, now, req.ip)
      auth == RouteAuth(cfg, req.route)
      checked ==
        IF auth = "JWTAuth" THEN JWTAuth(cfg.jwt, now, req.authorization)
        ELSE IF auth = "APIKeyAuth"
          THEN APIKeyAuth(cfg.apiKey, req.xAPIKey, req.authorization)
        ELSE Passed
      proxied == Proxy(req.route, req.payload)
  IN IF ~limited.admitted THEN Answered(limited.clients, limited.response)
     ELSE IF checked # Passed THEN Answered(limited.clients, checked)
     ELSE IF proxied # Passed THEN Answered(limited.clients, proxied)
     ELSE [clients |-> limited.clients, response |-> Passed, forwarded |-> TRUE]

(***************************************************************************)
(* The gateway under requests of the five driver routes.                   *)
(***************************************************************************)
ConfiguredKeys == <<"sk_live_key1", "sk_test_key2">>

GatewayConfigs ==
  {Config(RateLimitConfig(TRUE, 2, 3), JWTConfig(jwtEnabled, Secret),
          APIKeyConfig(keyEnabled, keys)) :
     jwtEnabled \in BOOLEAN, keyEnabled \in BOOLEAN,
     keys \in {<<>>, ConfiguredKeys}}

Routes ==
  {"POST /drivers", "PUT /drivers/:id", "GET /drivers/:id", "GET /drivers",
   "GET /drivers/nearby"}

ApiKey == <<"A", "p", "i", "K", "e", "y">>
AuthorizationHeaders ==
  {<<>>, <<Bearer>>, <<Bearer, "", "jwt-hs512-noexp">>,
   <<ToLower(Bearer), "jwt-hs512-noexp">>, <<Bearer, "not-a-jwt">>,
   <<Bearer, "sk_live_key1">>, <<ApiKey, "jwt-hs512-noexp">>,
   <<ApiKey, "sk_live_key1">>, <<ToLower(ApiKey), "sk_test_key2">>,
   <<ToUpper(ApiKey), "sk_live_key1">>, <<ApiKey, "sk_live_key0">>,
   <<ApiKey, "", "sk_live_key1">>, <<<<"K", "e", "y">>, "sk_live_key1">>}
    \cup {<<Bearer, t>> : t \in DOMAIN JWTs}
XAPIKeyHeaders == {"", "sk_test_key2", "sk_live_key0"}
Payloads == {"", "not JSON", "no lat"}

Requests ==
  [ip : {"10.0.0.1"}, route : Routes, authorization : AuthorizationHeaders,
   xAPIKey : XAPIKeyHeaders, payload : Payloads]

InitGateway ==
  /\ collection = <<>>
  /\ resp = Idle
  /\ store = <<>>
  /\ clock = 1
  /\ out = NoExchange
  /\ config \in GatewayConfigs
  /\ clients = NoClients
  /\ hist = <<>>
  /\ procs = <<>>

\* A request to the gateway is served.
GatewayRequest(req) ==
  /\ out.op = "idle"
  /\ LET r == ServeHTTP(clients, config, clock, req)
     IN /\ clients' = r.clients
        /\ out' = Exchange(req.route, req, NoFault, store, r)
  /\ UNCHANGED <<config, hist, store, clock, searchVars, procs>>

NextGateway ==
  \/ \E req \in Requests : GatewayRequest(req)
  \/ Tick
  \/ Finish

SpecGateway == InitGateway /\ [][NextGateway]_vars

(***************************************************************************)
(* C18: POST /drivers and PUT /drivers/:id behind the JWT check.           *)
(***************************************************************************)
Served == out.op \in Routes
Forwarded == Served /\ out.result.forwarded
Status(n) == Served /\ out.result.response.status = n

\* The request carries "Authorization: Bearer <token>" with a token signed
\* by an HMAC method under the configured secret and not expired at the time
\* of the request.
CarriesValidBearer ==
  /\ Len(out.input.authorization) = 2
  /\ out.input.authorization[1] = <<"B", "e", "a", "r", "e", "r">>
  /\ \E t \in DOMAIN JWTs :
       /\ out.input.authorization[2] = t
       /\ JWTs[t].alg \in {"HS256", "HS384", "HS512"}
       /\ JWTs[t].key = config.jwt.secret
       /\ (JWTs[t].exp = NoTime \/ clock < JWTs[t].exp)

JWTRoute == Served /\ out.op \in {"POST /drivers", "PUT /drivers/:id"}

\* The rate limiter in front of the routes let the request through.
WithinRate == Served /\ out.result.response # RateLimitExceeded

KeyRoute == Served /\ out.op \in {"GET /drivers", "GET /drivers/nearby"}

\* The key the request presents: the X-API-Key header, else the credential
\* of "Authorization: ApiKey <key>" (the scheme in any case of letters).
PresentedKey ==
  IF out.input.xAPIKey # "" THEN out.input.xAPIKey
  ELSE IF /\ Len(out.input.authorization) = 2
          /\ out.input.authorization[1] \in
               {<<"A", "p", "i", "K", "e", "y">>, <<"a", "p", "i", "k", "e", "y">>,
                <<"A", "P", "I", "K", "E", "Y">>}
    THEN out.input.authorization[2]
  ELSE ""

CarriesConfiguredKey ==
  \E i \in DOMAIN config.apiKey.keys : config.apiKey.keys[i] = PresentedKey

Points == Range(PointList)

Measure(a, b) ==
  /\ out.op = "idle"
  /\ out' = Exchange("Distance", [a |-> a, b |-> b], NoFault, store,
                     [there |-> Distance(a.lat, a.lon, b.lat, b.lon),
                      back |-> Distance(b.lat, b.lon, a.lat, a.lon)])
  /\ UNCHANGED <<store, clock, searchVars, gatewayVars, procs>>

NextDistance ==
  \/ \E a \in Points, b \in Points : Measure(a, b)
  \/ Finish

SpecDistance == Init /\ [][NextDistance]_vars

C22_SingleReadNoWrite ==
  [][(resp.op = "idle" /\ resp'.op = "FindNearbyDrivers") =>
       /\ collection' = collection
       /\ resp'.reads <= 1
       /\ (/\ ValidateLocation(resp'.lat, resp'.lon) = NoError
           /\ (resp'.taxiType = NilTaxiType \/ IsValid(resp'.taxiType))) =>
            resp'.reads = 1]_vars

\* A call on a collection of two drivers whose read failed has returned.
C22_Witness ==
  /\ resp.op = "FindNearbyDrivers"
  /\ resp.behaviour = FindFails /\ resp.err # NoError
  /\ resp.reads = 1
  /\ Len(collection) = 2

(***************************************************************************)
(* Concurrent nearby searches.  Each call of FindNearbyDrivers runs in its *)
(* own goroutine and proceeds in steps: validation, the read of the        *)
(* collection, the loop that keeps the candidates within the radius, the   *)
(* sort and the conversion to responses.  procs[p] holds the arguments and *)
(* the local variables of call p; the collection is the only thing the     *)
(* calls share, and other requests insert into it meanwhile.               *)
(***************************************************************************)
MaxShared == 2

Procs == {1, 2}

NoCall ==
  [pc |-> "idle", lat |-> 0, lon |-> 0, taxiType |-> NilTaxiType,
   behaviour |-> Narrowing, candidates |-> <<>>, nearby |-> <<>>,
   result |-> [err |-> NoError, isNil |-> TRUE, responses |-> <<>>]]

\* return nil, err
Fails(call, err) ==
  [call EXCEPT !.pc = "done",
               !.result = [err |-> err, isNil |-> TRUE, responses |-> <<>>]]

\* The call enters FindNearbyDrivers: the two validations.
BeginStep(ps, p, lat, lon, taxiType, behaviour) ==
  LET call == [NoCall EXCEPT !.lat = lat, !.lon = lon, !.taxiType = taxiType,
                             !.behaviour = behaviour]
      verr == ValidateLocation(lat, lon)
  IN [ps EXCEPT ![p] =
        IF verr # NoError THEN Fails(call, verr)
        ELSE IF taxiType # NilTaxiType /\ ~IsValid(taxiType)
          THEN Fails(call, "invalid taxiType")
        ELSE [call EXCEPT !.pc = "find"]]

\* r.collection.Find and cursor.All: the call's allDrivers.
FindStep(ps, p, coll) ==
  LET call == ps[p]
      candidates == CollectionFind(coll, BuildFilter(call.taxiType), call.behaviour)
  IN [ps EXCEPT ![p] =
        IF call.behaviour = FindFails \/ ~CursorAllOk(candidates, call.behaviour)
          THEN Fails(call, "failed to find nearby drivers")
        ELSE [call EXCEPT !.pc = "filter", !.candidates = candidates]]

\* A repository that keeps nearbyDrivers in a field of its own: the loop of
\* one call fills the slice every call sorts.
FilterStepShared(ps, p) ==
  [q \in DOMAIN ps |->
     IF q = p \/ ps[q].pc = "sort"
       THEN [ps[q] EXCEPT !.pc = "sort",
               !.nearby = NearbyDrivers(ps[p].candidates, ps[p].lat, ps[p].lon,
                                        RadiusKm)]
       ELSE ps[q]]

\* The loop over allDrivers fills the call's nearbyDrivers.
FilterStep(ps, p) ==
  [ps EXCEPT ![p].pc = "sort",
             ![p].nearby = NearbyDrivers(ps[p].candidates, ps[p].lat, ps[p].lon,
                                         RadiusKm)]

\* The sort of nearbyDrivers, the result slice and the use case's responses.
SortStep(ps, p) ==
  LET call == ps[p]
      sorted == SortByDistance(call.nearby)
  IN [ps EXCEPT ![p].pc = "done",
                ![p].result =
                  [err |-> NoError, isNil |-> FALSE,
                   responses |-> [i \in 1..Len(sorted) |->
                     ToResponse(sorted[i].driver, call.lat, call.lon)]]]

SharedCreates ==
  { [taxiType |-> TaxiTypeSari, location |-> Besiktas],
    [taxiType |-> TaxiTypeTurkuaz, location |-> Sirkeci] }
SearchCalls ==
  ({Istanbul} \X {NilTaxiType, TaxiTypeSari} \X {Narrowing, NotNarrowing, FindFails})
    \cup {<<Lat100, NilTaxiType, Narrowing>>}

InitSearches ==
  /\ collection = <<>>
  /\ resp = Idle
  /\ store = <<>>
  /\ clock = 1
  /\ out = NoExchange
  /\ config = NotLoaded
  /\ clients = NoClients
  /\ hist = <<>>
  /\ procs = [p \in Procs |-> NoCall]

\* Another request inserts a driver.
SharedCreate(driver) ==
  /\ Len(collection) < MaxShared
  /\ collection' = Append(collection,
       Document(Len(collection) + 1, driver.taxiType, driver.location, TRUE))
  /\ UNCHANGED <<resp, driverVars, gatewayVars, procs>>

Begin(p, lat, lon, taxiType, behaviour) ==
  /\ procs[p].pc = "idle"
  /\ procs' = BeginStep(procs, p, lat, lon, taxiType, behaviour)
  /\ UNCHANGED <<searchVars, driverVars, gatewayVars>>

Find(p) ==
  /\ procs[p].pc = "find"
  /\ procs' = FindStep(procs, p, collection)
  /\ UNCHANGED <<searchVars, driverVars, gatewayVars>>

Filter(p) ==
  /\ procs[p].pc = "filter"
  /\ procs' = FilterStep(procs, p)
  /\ UNCHANGED <<searchVars, driverVars, gatewayVars>>

Sort(p) ==
  /\ procs[p].pc = "sort"
  /\ procs' = SortStep(procs, p)
  /\ UNCHANGED <<searchVars, driverVars, gatewayVars>>

\* The caller has taken the result.
End(p) ==
  /\ procs[p].pc = "done"
  /\ procs' = [procs EXCEPT ![p] = NoCall]
  /\ UNCHANGED <<searchVars, driverVars, gatewayVars>>

NextSearches ==
  \/ \E driver \in SharedCreates : SharedCreate(driver)
  \/ \E p \in Procs, c \in SearchCalls : Begin(p, c[1].lat, c[1].lon, c[2], c[3])
  \/ \E p \in Procs : Find(p)
  \/ \E p \in Procs : Filter(p)
  \/ \E p \in Procs : Sort(p)
  \/ \E p \in Procs : End(p)

SpecSearches == InitSearches /\ [][NextSearches]_vars

(***************************************************************************)
(* C23: concurrent searches do not interfere.                              *)
(***************************************************************************)
\* What the call would return had it run alone on the candidates it read.
Alone(call) ==
  LET r == FindNearbyDrivers(call.candidates, call.lat, call.lon,
                             call.taxiType, call.behaviour)
  IN [err |-> r.err, isNil |-> r.isNil, responses |-> r.responses]

\* C23: under every interleaving, the result of each FindNearbyDrivers call
\* is the result the same call produces alone on the candidates it read,
\* whatever the other calls ask for and however far they have come.
C23_NoInterference ==
  \A p \in Procs : procs[p].pc = "done" => procs[p].result = Alone(procs[p])

\* Two calls with different filters have both returned drivers, one having
\* read the collection before an insertion and the other after it, while
\* both were under way.
C23_Witness ==
  /\ procs[1].pc = "done" /\ procs[2].pc = "done"
  /\ procs[1].taxiType # procs[2].taxiType
  /\ Len(procs[1].result.responses) = 1
  /\ Len(procs[2].result.responses) = 2
  /\ Len(procs[1].candidates) < Len(procs[2].candidates)

(***************************************************************************)
(* The driver service's handler of GET /drivers/nearby.  A coordinate in   *)
(* the query is a numeral (in units of 1/10000 degree), a numeral beyond   *)
(* the range of float64, a text that is no number, or absent.              *)
(***************************************************************************)
\* strconv.ParseFloat(s, 64)
ParseFloat(param) ==
  IF param.kind = "numeral" THEN [err |-> NoError, value |-> param.value]
  ELSE IF param.kind = "tooLarge" \/ param.kind = "tooSmall"
    THEN [err |-> "value out of range", value |-> 0]
  ELSE [err |-> "invalid syntax", value |-> 0]

NearbyHandled(response, invoked, r) ==
  [response |-> response, invoked |-> invoked, err |-> r.err,
   responses |-> r.responses, reads |-> r.reads]
NearbyNotInvoked == [err |-> NoError, responses |-> <<>>, reads |-> 0]

\* A handler that leaves the check of the taxi type to the use case.
HandleFindNearbyDriversUnchecked(coll, latStr, lonStr, taksiTypeStr, behaviour) ==
  LET lat == ParseFloat(latStr)
      lon == ParseFloat(lonStr)
      taxiType == IF taksiTypeStr # "" THEN taksiTypeStr ELSE NilTaxiType
      r == FindNearbyDrivers(coll, lat.value, lon.value, taxiType, behaviour)
  IN IF latStr.kind = "absent" \/ lonStr.kind = "absent"
       THEN NearbyHandled(Response(400, "VALIDATION_ERROR", "lat and lon are required"),
                          FALSE, NearbyNotInvoked)
     ELSE IF lat.err # NoError
       THEN NearbyHandled(Response(400, "VALIDATION_ERROR", "invalid lat format"),
                          FALSE, NearbyNotInvoked)
     ELSE IF lon.err # NoError
       THEN NearbyHandled(Response(400, "VALIDATION_ERROR", "invalid lon format"),
                          FALSE, NearbyNotInvoked)
     ELSE IF r.err = NoError THEN NearbyHandled(Success(200), TRUE, r)
     ELSE IF isValidationError(r.err)
       THEN NearbyHandled(Response(400, "VALIDATION_ERROR", r.err), TRUE, r)
     ELSE NearbyHandled(Response(500, "INTERNAL_ERROR", "failed to find nearby drivers"),
                        TRUE, r)

\* DriverHandler.FindNearbyDrivers
HandleFindNearbyDrivers(coll, latStr, lonStr, taksiTypeStr, behaviour) ==
  LET lat == ParseFloat(latStr)
      lon == ParseFloat(lonStr)
      taxiType == IF taksiTypeStr # "" THEN taksiTypeStr ELSE NilTaxiType
      r == FindNearbyDrivers(coll, lat.value, lon.value, taxiType, behaviour)
  IN IF latStr.kind = "absent" \/ lonStr.kind = "absent"
       THEN NearbyHandled(Response(400, "VALIDATION_ERROR", "lat and lon are required"),
                          FALSE, NearbyNotInvoked)
     ELSE IF lat.err # NoError
       THEN NearbyHandled(Response(400, "VALIDATION_ERROR", "invalid lat format"),
                          FALSE, NearbyNotInvoked)
     ELSE IF lon.err # NoError
       THEN NearbyHandled(Response(400, "VALIDATION_ERROR", "invalid lon format"),
                          FALSE, NearbyNotInvoked)
     ELSE IF taksiTypeStr # "" /\ ~IsValid(taksiTypeStr)
       THEN NearbyHandled(
              Response(400, "VALIDATION_ERROR",
                       "invalid taksiType. Must be one of: sari, turkuaz, siyah"),
              FALSE, NearbyNotInvoked)
     ELSE IF r.err = NoError THEN NearbyHandled(Success(200), TRUE, r)
     ELSE IF isValidationError(r.err)
       THEN NearbyHandled(Response(400, "VALIDATION_ERROR", r.err), TRUE, r)
     ELSE NearbyHandled(Response(500, "INTERNAL_ERROR", "failed to find nearby drivers"),
                        TRUE, r)

LatParams ==
  {QueryAbsent, QueryText, QueryTooLarge, QueryNumeral(Istanbul.lat),
   QueryNumeral(Lat100.lat)}
LonParams ==
  {QueryAbsent, QueryText, QueryTooSmall, QueryNumeral(Istanbul.lon),
   QueryNumeral(Lon200.lon)}
TaksiTypeParams == {"", TaxiTypeSari, TaxiTypeSiyah, "SARI", "invalid"}

HandlerFindNearbyDrivers(latStr, lonStr, taksiTypeStr, behaviour) ==
  /\ out.op = "idle"
  /\ LET h == HandleFindNearbyDrivers(collection, latStr, lonStr, taksiTypeStr,
                                      behaviour)
     IN out' = Exchange("GET /drivers/nearby",
                        [lat |-> latStr, lon |-> lonStr, taksiType |-> taksiTypeStr],
                        NoFault, store, h)
  /\ UNCHANGED <<store, clock, searchVars, gatewayVars, procs>>

NextNearbyHandler ==
  \/ \E driver \in SharedCreates : SharedCreate(driver)
  \/ \E lat \in LatParams, lon \in LonParams, t \in TaksiTypeParams,
        b \in {Narrowing, FindFails} : HandlerFindNearbyDrivers(lat, lon, t, b)
  \/ Finish

SpecNearbyHandler == Init /\ [][NextNearbyHandler]_vars

(***************************************************************************)
(* C24: what GET /drivers/nearby rejects before the use case.              *)
(***************************************************************************)
Nearby == out.op = "GET /drivers/nearby"

\* lat or lon is missing or is no number, or taksiType is given and is none
\* of sari, turkuaz, siyah.
MalformedNearbyQuery ==
  \/ out.input.lat.kind # "numeral"
  \/ out.input.lon.kind # "numeral"
  \/ out.input.taksiType \notin {"", "sari", "turkuaz", "siyah"}

\* C24: GET /drivers/nearby with a missing or unparsable lat or lon, or with
\* a taksiType outside sari, turkuaz, siyah, is answered 400
\* VALIDATION_ERROR and the use case's FindNearbyDrivers is not called.
C24_NearbyRejectsBeforeUseCase ==
  (Nearby /\ MalformedNearbyQuery) =>
    /\ out.result.response.status = 400
    /\ out.result.response.code = "VALIDATION_ERROR"
    /\ ~out.result.invoked
    /\ out.result.reads = 0

\* A query with good coordinates and the taxi type SARI has been refused
\* while the collection held drivers.
C24_Witness ==
  /\ Nearby
  /\ out.input.lat.kind = "numeral" /\ out.input.lon.kind = "numeral"
  /\ out.input.taksiType = "SARI"
  /\ ~out.result.invoked
  /\ Len(collection) = 2

(***************************************************************************)
(* The gateway's driver handlers.  Each one checks what it needs of the    *)
(* request, sends the request on through DriverServiceClient.doRequest and *)
(* hands the driver service's response to forwardResponse.  What comes of  *)
(* the call to the driver service is an input: the service is not reached  *)
(* (no connection, or no response within the client's timeout), or it      *)
(* answers with a status and a body, and the body can be read to its end   *)
(* or not.                                                                 *)
(***************************************************************************)
ErrorBody(code, message) == [code |-> code, message |-> message, data |-> ""]
DataBody(data) == [code |-> "", message |-> "", data |-> data]
Reply(status, body) == [status |-> status, body |-> body]

\* respondError: c.JSON(status, ErrorResponse{...})
respondError(status, code, message) == Reply(status, ErrorBody(code, message))

Reached(status, body, readable) ==
  [reached |-> TRUE, status |-> status, body |-> body, readable |-> readable]
Unreachable ==
  [reached |-> FALSE, status |-> 0, body |-> DataBody(""), readable |-> FALSE]

\* DriverServiceClient.doRequest: httpClient.Do and its error.
doRequest(upstream) ==
  IF upstream.reached THEN [err |-> NoError, answer |-> upstream]
  ELSE [err |-> "failed to forward request", answer |-> upstream]

\* A forwardResponse that copies the status and leaves the body out.
forwardResponseStatusOnly(answer) ==
  IF ~answer.readable
    THEN respondError(500, "INTERNAL_ERROR", "failed to read response")
  ELSE Reply(answer.status, DataBody(""))

\* DriverHandler.forwardResponse: io.ReadAll(resp.Body), then
\* c.Data(resp.StatusCode, Content-Type, body).
forwardResponse(answer) ==
  IF ~answer.readable
    THEN respondError(500, "INTERNAL_ERROR", "failed to read response")
  ELSE Reply(answer.status, answer.body)

GatewayOperations ==
  {"CreateDriver", "UpdateDriver", "GetDriver", "ListDrivers",
   "FindNearbyDrivers"}

FailedTo(operation) ==
  CASE operation = "CreateDriver" -> "failed to create driver"
    [] operation = "UpdateDriver" -> "failed to update driver"
    [] operation = "GetDriver" -> "failed to get driver"
    [] operation = "ListDrivers" -> "failed to list drivers"
    [] operation = "FindNearbyDrivers" -> "failed to find nearby drivers"

\* What the handler itself refuses: a body that is no JSON object (create,
\* update), an empty lat or lon (find nearby).
Refusal(operation, req) ==
  IF operation \in {"UpdateDriver", "GetDriver"} /\ req.id = ""
    THEN respondError(400, "VALIDATION_ERROR", "driver ID is required")
  ELSE IF operation \in {"CreateDriver", "UpdateDriver"} /\ ~req.json
    THEN respondError(400, "VALIDATION_ERROR", "invalid character")
  ELSE IF operation = "FindNearbyDrivers" /\ (req.lat = "" \/ req.lon = "")
    THEN respondError(400, "VALIDATION_ERROR", "lat and lon are required")
  ELSE Passed

\* DriverHandler.CreateDriver, UpdateDriver, GetDriver, ListDrivers and
\* FindNearbyDrivers of the gateway.  called tells whether the request was
\* sent to the driver service.
GatewayDriverHandler(operation, req, upstream) ==
  LET refusal == Refusal(operation, req)
      sent == doRequest(upstream)
  IN IF refusal # Passed THEN [response |-> refusal, called |-> FALSE]
     ELSE IF sent.err # NoError
       THEN [response |-> respondError(500, "INTERNAL_ERROR", FailedTo(operation)),
             called |-> TRUE]
     ELSE [response |-> forwardResponse(sent.answer), called |-> TRUE]

\* The driver service's answers, as its handlers give them.
UpstreamBodies ==
  {Reply(200, DataBody("driver")), Reply(201, DataBody("driver")),
   Reply(200, DataBody("drivers")),
   Reply(400, ErrorBody("VALIDATION_ERROR", "plate is required")),
   Reply(404, ErrorBody("NOT_FOUND", "driver not found")),
   Reply(500, ErrorBody("INTERNAL_ERROR", "failed to get driver"))}
Upstreams ==
  {Unreachable}
    \cup {Reached(r.status, r.body, readable) :
            r \in UpstreamBodies, readable \in BOOLEAN}
GatewayDriverRequests ==
  [id : {"65f0"}, json : BOOLEAN, lat : {"", "41.0"}, lon : {"", "29.0"}]

GatewayOperation(operation, req, upstream) ==
  /\ out.op = "idle"
  /\ out' = Exchange(operation, [req |-> req, upstream |-> upstream], NoFault,
                     store, GatewayDriverHandler(operation, req, upstream))
  /\ UNCHANGED <<store, clock, searchVars, gatewayVars, procs>>

NextForward ==
  \/ \E operation \in GatewayOperations, req \in GatewayDriverRequests,
        upstream \in Upstreams : GatewayOperation(operation, req, upstream)
  \/ Finish

SpecForward == Init /\ [][NextForward]_vars

(***************************************************************************)
(* C25: the gateway hands on what the driver service answered.             *)
(***************************************************************************)
\* The gateway has sent a request to the driver service.
SentOn == out.op \in GatewayOperations /\ out.result.called

\* The driver service's response has arrived, status and body.
UpstreamAnswered ==
  SentOn /\ out.input.upstream.reached /\ out.input.upstream.readable

\* C25: for each of the five driver operations of the gateway, the response
\* to the client has the status code and the body of the driver service's
\* response when the driver service answers, and is 500 INTERNAL_ERROR when
\* the driver service cannot be reached.
C25_ForwardsStatusAndBody ==
  /\ UpstreamAnswered =>
       /\ out.result.response.status = out.input.upstream.status
       /\ out.result.response.body = out.input.upstream.body
  /\ (SentOn /\ ~out.input.upstream.reached) =>
       /\ out.result.response.status = 500
       /\ out.result.response.body.code = "INTERNAL_ERROR"

\* The driver service's 404 NOT_FOUND for a driver has been handed on.
C25_Witness ==
  /\ out.op = "GetDriver"
  /\ UpstreamAnswered
  /\ out.input.upstream.status = 404
  /\ out.result.response = Reply(404, ErrorBody("NOT_FOUND", "driver not found"))

(***************************************************************************)
(* Concurrent UpdateDriver calls.  The use case holds no lock and the      *)
(* store offers it two separate operations, so a call is three steps: it   *)
(* starts, GetByID reads the driver (the checks and the overwriting of the *)
(* provided fields work on that copy), and Update writes all the fields of *)
(* the copy.  Each caller makes one call.                                  *)
(***************************************************************************)
NoUpdateCall == [pc |-> "idle"]

\* UpdateDriver from its entry to the call of repo.Update.
GetStep(ps, p, st) ==
  LET call == ps[p]
      g == GetByID(st, call.id, NoFault)
      invalid == ValidateUpdateRequest(call.req)
  IN IF g.err # NoError
       THEN [ps EXCEPT ![p] = [call EXCEPT !.pc = "done", !.err = ErrDriverNotFound]]
     ELSE IF invalid # NoError
       THEN [ps EXCEPT ![p] = [call EXCEPT !.pc = "done", !.err = invalid]]
     ELSE [ps EXCEPT ![p] = [call EXCEPT !.pc = "Update",
                                         !.existing = ApplyUpdate(g.driver, call.req)]]

\* repo.Update and the return of UpdateDriver.
UpdateStep(ps, p, st, now) ==
  LET call == ps[p]
      r == RepositoryUpdate(st, now, call.id, call.existing, NoFault)
  IN [store |-> r.store,
      procs |-> [ps EXCEPT ![p] =
                   [call EXCEPT !.pc = "done",
                                !.err = IF r.err # NoError
                                          THEN "failed to update driver"
                                          ELSE NoError]]]

ConcurrentUpdates == {UpdateNamePlateBrand, UpdateRest, [firstName |-> ""]}

InitUpdates ==
  /\ collection = <<>>
  /\ resp = Idle
  /\ store = <<>>
  /\ clock = 1
  /\ out = NoExchange
  /\ config = NotLoaded
  /\ clients = NoClients
  /\ hist = <<>>
  /\ procs = [p \in Procs |-> NoUpdateCall]

UpdateBegin(p, id, req) ==
  /\ procs[p].pc = "idle"
  /\ procs' = [procs EXCEPT ![p] = [pc |-> "GetByID", id |-> id, req |-> req,
                                    existing |-> NilDriver, err |-> NoError]]
  /\ UNCHANGED <<driverVars, searchVars, gatewayVars>>

UpdateGet(p) ==
  /\ procs[p].pc = "GetByID"
  /\ procs' = GetStep(procs, p, store)
  /\ UNCHANGED <<driverVars, searchVars, gatewayVars>>

UpdateSet(p) ==
  /\ procs[p].pc = "Update"
  /\ LET u == UpdateStep(procs, p, store, clock)
     IN /\ store' = u.store
        /\ procs' = u.procs
  /\ UNCHANGED <<clock, out, searchVars, gatewayVars>>

NextUpdates ==
  \/ UseCaseCreateDriver(ValidCreate, NoFault)
  \/ \E p \in Procs, id \in 1..MaxStored, req \in ConcurrentUpdates :
       UpdateBegin(p, id, req)
  \/ \E p \in Procs : UpdateGet(p)
  \/ \E p \in Procs : UpdateSet(p)
  \/ Tick
  \/ Finish

SpecUpdates == InitUpdates /\ [][NextUpdates]_vars

(***************************************************************************)
(* C26: no lost update.                                                    *)
(***************************************************************************)
\* The call has returned without error.
Returned(call) == call.pc = "done" /\ call.err = NoError

\* The stored driver has the values the request provides.
Carries(driver, req) == ApplyUpdate(driver, req) = driver

\* C26: when two UpdateDriver calls on one driver that set disjoint fields
\* have both succeeded, the stored driver carries the changes of both.
C26_NoLostUpdate ==
  \A p, q \in Procs :
    (/\ p # q
     /\ Returned(procs[p]) /\ Returned(procs[q])
     /\ procs[p].id = procs[q].id
     /\ DOMAIN procs[p].req \cap DOMAIN procs[q].req = {}) =>
      /\ Carries(store[procs[p].id], procs[p].req)
      /\ Carries(store[procs[q].id], procs[q].req)

(***************************************************************************)
(* C27: a failed UpdateDriver leaves the stored driver as it was.          *)
(***************************************************************************)
UpdateFailed == out.op = "UpdateDriver" /\ out.result.err # NoError

C27_WitnessRepository ==
  /\ UpdateFailed
  /\ out.fault.call = "UpdateOne"
  /\ out.result.err = "failed to update driver"
  /\ store[1].firstName = "Ahmet"

(***************************************************************************)
(* C28: what every stored driver looks like.                               *)
(***************************************************************************)
WellFormed(driver) ==
  /\ driver.firstName # "" /\ driver.lastName # ""
  /\ driver.carBrand # "" /\ driver.carModel # ""
  /\ PlateRegexMatch(driver.plate)
  /\ driver.taxiType \in {"sari", "turkuaz", "siyah"}
  /\ driver.location.lat >= -900000 /\ driver.location.lat <= 900000
  /\ driver.location.lon >= -1800000 /\ driver.location.lon <= 1800000

\* C28: after any sequence of CreateDriver and UpdateDriver calls, accepted
\* or refused, every stored driver has a first name, a last name, a car
\* brand and a car model, an upper-case plate of 2-3 digits, 1-3 letters and
\* 1-4 digits, one of the three taxi types and a location within range.
C28_StoredDriversWellFormed ==
  \A i \in 1..Len(store) : WellFormed(store[i])

\* A driver created with a lower-case plate has been updated with a plate
\* of mixed case, and requests have been refused on the way.
C28_Witness ==
  /\ out.op = "UpdateDriver" /\ out.result.err = NoError
  /\ out.input.req = UpdateNamePlateBrand
  /\ store[1].plate = <<"3", "4", "X", "Y", "Z", "7", "8", "9">>
  /\ store[1].createdAt < store[1].updatedAt
  /\ Len(store) = 2

(***************************************************************************)
(* ListDrivers beside CreateDriver.  DriverRepository.List asks the store  *)
(* twice, CountDocuments and then Find, and holds no lock in between: a    *)
(* listing is a start, the count, the page and the return, and an insert   *)
(* of a CreateDriver call may come between any two of them.                *)
(***************************************************************************)
NoListCall == [pc |-> "idle"]

\* ListDrivers from its entry to CountDocuments.
CountStep(ps, p, st) ==
  [ps EXCEPT ![p] = [ps[p] EXCEPT !.pc = "Find", !.totalCount = Len(st)]]

\* Find with skip, limit and sort, cursor.All, and the response.
PageStep(ps, p, st) ==
  LET call == ps[p]
      skip == Skip(call.page, call.pageSize)
  IN IF IsNegative(skip)
       THEN [ps EXCEPT ![p] = [call EXCEPT !.pc = "done",
                                           !.err = "failed to list drivers",
                                           !.totalCount = 0]]
     ELSE [ps EXCEPT ![p] = [call EXCEPT !.pc = "done",
                                         !.drivers = FindPage(st, skip, call.pageSize)]]

ConcurrentPages == {Int64(0), Int64(1), Int64(2)}
ConcurrentPageSizes == {Int64(1), Int64(20)}

InitListing ==
  /\ collection = <<>>
  /\ resp = Idle
  /\ store = <<>>
  /\ clock = 1
  /\ out = NoExchange
  /\ config = NotLoaded
  /\ clients = NoClients
  /\ hist = <<>>
  /\ procs = [p \in Procs |-> NoListCall]

ListBegin(p, page, pageSize) ==
  /\ procs[p].pc = "idle"
  /\ procs' = [procs EXCEPT ![p] =
                 [pc |-> "CountDocuments", page |-> NormalizePage(page),
                  pageSize |-> NormalizePageSize(pageSize), totalCount |-> 0,
                  drivers |-> <<>>, err |-> NoError]]
  /\ UNCHANGED <<driverVars, searchVars, gatewayVars>>

ListCount(p) ==
  /\ procs[p].pc = "CountDocuments"
  /\ procs' = CountStep(procs, p, store)
  /\ UNCHANGED <<driverVars, searchVars, gatewayVars>>

ListFind(p) ==
  /\ procs[p].pc = "Find"
  /\ procs' = PageStep(procs, p, store)
  /\ UNCHANGED <<driverVars, searchVars, gatewayVars>>

ListEnd(p) ==
  /\ procs[p].pc = "done"
  /\ procs' = [procs EXCEPT ![p] = NoListCall]
  /\ UNCHANGED <<driverVars, searchVars, gatewayVars>>

NextListing ==
  \/ UseCaseCreateDriver(ValidCreate, NoFault)
  \/ \E p \in Procs, page \in ConcurrentPages, pageSize \in ConcurrentPageSizes :
       ListBegin(p, page, pageSize)
  \/ \E p \in Procs : ListCount(p)
  \/ \E p \in Procs : ListFind(p)
  \/ \E p \in Procs : ListEnd(p)
  \/ Tick
  \/ Finish

SpecListing == InitListing /\ [][NextListing]_vars

(***************************************************************************)
(* C29: a page is never larger than the count.                             *)
(***************************************************************************)
\* C29: in every ListDrivers response the number of drivers returned is at
\* most TotalCount, also when CreateDriver calls run beside the listing.
C29_PageWithinTotalCount ==
  \A p \in Procs :
    (procs[p].pc = "done" /\ procs[p].err = NoError) =>
      Len(procs[p].drivers) <= procs[p].totalCount

(***************************************************************************)
(* The rate limiter under concurrent requests.  A request passes through   *)
(* RateLimiter.Limit in two steps: getLimiter, which holds rl.mu from its  *)
(* lookup to its return, and Allow on the limiter it was handed, which     *)
(* holds that limiter's own mutex.  A round of the cleanup holds rl.mu for *)
(* its whole loop.  Between the steps of one request the other requests,   *)
(* the cleanup and the clock may move.                                     *)
(*                                                                         *)
(* A *rate.Limiter is an object of its own: a request may still hold one   *)
(* whose entry has been deleted.  procs.limiters maps each limiter made so *)
(* far, named by the IP and the time it was made for, to its state (the    *)
(* limiter field of an entry of clients is the limiter as it was made).    *)
(* procs.evicted counts, for each IP, the deletions of its entry; the code *)
(* keeps no such count.                                                    *)
(***************************************************************************)
\* The requests followed through the rate limiter in one behaviour.
MaxRequests == 3

NoLimitCall == [pc |-> "idle"]

LimiterOf(entry) == [ip |-> entry.ip, created |-> entry.created]

\* limiter := rl.getLimiter(clientIP)
GetLimiterStep(ps, cl, cfg, now, p) ==
  LET got == getLimiter(cl, cfg, now, ps.calls[p].ip)
      entry == ClientOf(got, ps.calls[p].ip)
      ref == LimiterOf(entry)
  IN [clients |-> got,
      procs |-> [ps EXCEPT
        !.calls[p] = [@ EXCEPT !.pc = "Allow", !.limiter = ref],
        !.limiters = IF ref \in DOMAIN @ THEN @ ELSE @ @@ (ref :> entry.limiter)]]

\* limiter.Allow() and the response
AllowStep(ps, now, p) ==
  LET call == ps.calls[p]
      a == Allow(ps.limiters[call.limiter], now)
  IN [admitted |-> a.ok,
      response |-> IF a.ok THEN Passed ELSE RateLimitExceeded,
      procs |-> [ps EXCEPT !.calls[p] = NoLimitCall,
                           !.limiters[call.limiter] = a.limiter]]

\* The IPs whose entry a round of the cleanup deletes.
Evicted(cl, cfg, now) == {c.ip : c \in cl \ cleanup(cl, cfg, now)}

SharedLimitConfigs ==
  {Config(RateLimitConfig(TRUE, requests, 1), DefaultJWT, NoAPIKey) :
     requests \in {1, 2}}

InitLimiters ==
  /\ collection = <<>>
  /\ resp = Idle
  /\ store = <<>>
  /\ clock = 1
  /\ out = NoExchange
  /\ config \in SharedLimitConfigs
  /\ clients = NoClients
  /\ hist = <<>>
  /\ procs = [calls |-> [p \in Procs |-> NoLimitCall], limiters |-> <<>>,
              evicted |-> [ip \in ClientIPs |-> 0]]

\* A request of the client IP enters RateLimiter.Limit.
LimitBegin(p, ip) ==
  /\ procs.calls[p].pc = "idle"
  /\ Len(hist) + Cardinality({q \in Procs : procs.calls[q].pc # "idle"})
       < MaxRequests
  /\ procs' = [procs EXCEPT !.calls[p] =
                 [pc |-> "getLimiter", ip |-> ip, limiter |-> LimiterOf([ip |-> ip, created |-> 0]),
                  epoch |-> 0]]
  /\ UNCHANGED <<config, clients, hist, clock, store, out, searchVars>>

LimitGet(p) ==
  /\ procs.calls[p].pc = "getLimiter"
  /\ LET g == GetLimiterStep(procs, clients, config.rateLimit, clock, p)
     IN /\ clients' = g.clients
        /\ procs' = [g.procs EXCEPT
                       !.calls[p].epoch = procs.evicted[procs.calls[p].ip]]
  /\ UNCHANGED <<config, hist, clock, store, out, searchVars>>

LimitAllow(p) ==
  /\ procs.calls[p].pc = "Allow"
  /\ LET a == AllowStep(procs, clock, p)
         call == procs.calls[p]
     IN /\ procs' = a.procs
        /\ hist' = Append(hist,
             [ip |-> call.ip, at |-> clock, limiter |-> call.limiter,
              epoch |-> call.epoch,
              outcome |-> IF a.admitted THEN "admitted" ELSE "limited"])
  /\ UNCHANGED <<config, clients, clock, store, out, searchVars>>

\* The cleanup goroutine's ticker fires beside the requests.
CleanupShared ==
  /\ clients' = cleanup(clients, config.rateLimit, clock)
  /\ procs' = [procs EXCEPT !.evicted =
                 [ip \in ClientIPs |->
                    IF ip \in Evicted(clients, config.rateLimit, clock)
                      THEN @[ip] + 1 ELSE @[ip]]]
  /\ UNCHANGED <<config, clock, hist, store, out, searchVars>>

NextLimiters ==
  \/ \E p \in Procs, ip \in ClientIPs : LimitBegin(p, ip)
  \/ \E p \in Procs : LimitGet(p)
  \/ \E p \in Procs : LimitAllow(p)
  \/ CleanupShared
  \/ Elapse

SpecLimiters == InitLimiters /\ [][NextLimiters]_vars

(***************************************************************************)
(* C30: one limiter per client IP, whatever the interleaving.              *)
(***************************************************************************)
\* rl.clients has at most one entry for an IP.
OneEntryPerIP ==
  \A c1 \in clients, c2 \in clients : c1.ip = c2.ip => c1 = c2

\* Requests of one IP that fetched their limiter with no deletion of the
\* IP's entry in between were counted against one limiter, and every
\* request against a limiter made for its own IP.
SameLimiterBetweenEvictions ==
  /\ \A i \in DOMAIN hist, j \in DOMAIN hist :
       (hist[i].ip = hist[j].ip /\ hist[i].epoch = hist[j].epoch) =>
         hist[i].limiter = hist[j].limiter
  /\ \A i \in DOMAIN hist : hist[i].limiter.ip = hist[i].ip
  /\ \A p \in Procs, q \in Procs :
       (/\ procs.calls[p].pc = "Allow" /\ procs.calls[q].pc = "Allow"
        /\ procs.calls[p].ip = procs.calls[q].ip
        /\ procs.calls[p].epoch = procs.calls[q].epoch) =>
         procs.calls[p].limiter = procs.calls[q].limiter

\* A step changes the tokens of a limiter only on behalf of a request of
\* the IP the limiter was made for.
OwnAllowanceOnly ==
  \A ref \in DOMAIN procs.limiters :
    (ref \in DOMAIN procs'.limiters /\ procs'.limiters[ref] # procs.limiters[ref]) =>
      \E p \in Procs : /\ procs.calls[p].pc = "Allow"
                       /\ procs'.calls[p].pc = "idle"
                       /\ procs.calls[p].ip = ref.ip

\* C30: under every interleaving of concurrent requests and the cleanup,
\* the rate limiter holds at most one limiter per client IP, the requests
\* of one IP between two evictions of its entry are counted against the
\* same limiter, and a request consumes only the allowance of its own IP.
C30_OneLimiterPerClient ==
  /\ [](OneEntryPerIP /\ SameLimiterBetweenEvictions)
  /\ [][OwnAllowanceOnly]_vars

\* Two requests of one IP were in flight together before the IP had an
\* entry; both have been counted against the one limiter, whose single
\* token the first took.
C30_Witness ==
  /\ config.rateLimit.requests = 1
  /\ Len(hist) = 2
  /\ hist[1].ip = hist[2].ip /\ hist[1].at = hist[2].at
  /\ hist[1].limiter = hist[2].limiter
  /\ hist[1].outcome = "admitted" /\ hist[2].outcome = "limited"
  /\ procs.evicted[hist[1].ip] = 0
  /\ procs.calls[1].pc = "idle" /\ procs.calls[2].pc = "idle"

====
